---- MODULE Spec2Model ----
(***************************************************************************)
(* Nevis AI proxy (src/proxy-server/main.py): the credit ledger, the      *)
(* credential resolution, the Google-keys-then-OpenRouter fallback chain, *)
(* the website-analysis model chain and the HTTP handlers, as a state     *)
(* machine.  The server runs on one asyncio event loop: a handler runs    *)
(* without interruption between two awaits, so one action of the model is *)
(* the code of a handler from one outbound HTTP call to the next.         *)
(***************************************************************************)
EXTENDS Integers, Sequences, FiniteSets, TLC

VARIABLES
    user_credits,   \* the ledger: user id -> [credits, tier, total_cost]
    env,            \* names of the environment variables that hold a secret
    req,            \* request slot -> the state of the handler serving it
    grants,         \* number of purchase / add-credits requests served so far
    ledger0,        \* history: the ledger of the initial state
    granted,        \* history: user id -> credits added by purchases and grants
    admin,          \* the last purchase / add-credits request and its response
    wire            \* a payload on its way to OpenRouter and back

vars == <<user_credits, env, req, grants, ledger0, granted, admin, wire>>

----------------------------------------------------------------------------
(* Bounds of the model *)

NReq == 2
MaxInitCredits == 2
MaxGrants == 1
MaxManualCredits == 2
MaxDebits == 2
MaxParts == 2

Req == 1..NReq

----------------------------------------------------------------------------
(* Static tables of the program *)

DefaultCredits == 100

NoCost == 0

TIER_CREDITS ==
    [t \in {"free", "basic", "premium", "pro", "enterprise"} |->
        CASE t = "free" -> 100
          [] t = "basic" -> 40
          [] t = "premium" -> 100
          [] t = "pro" -> 250
          [] t = "enterprise" -> 1000]

\* dollars * 10^5
GENERATION_COSTS ==
    [g \in {"text", "image", "complete"} |->
        CASE g = "text" -> 65
          [] g = "image" -> 3903
          [] g = "complete" -> 3968]

ALLOWED_MODELS ==
    [m \in {"gemini-2.5-flash-image-preview", "gemini-2.5-flash",
            "gemini-2.5-flash-lite", "claude-sonnet-4.5", "claude-3.5-sonnet",
            "gemini-1.5-flash"} |->
        CASE m = "gemini-2.5-flash-image-preview" ->
                "https://generativelanguage.googleapis.com/v1beta/models/gemini-2.5-flash-image-preview:generateContent"
          [] m = "gemini-2.5-flash" ->
                "https://generativelanguage.googleapis.com/v1beta/models/gemini-2.5-flash:generateContent"
          [] m = "gemini-2.5-flash-lite" ->
                "https://generativelanguage.googleapis.com/v1beta/models/gemini-2.5-flash-lite:generateContent"
          [] m = "claude-sonnet-4.5" -> "anthropic"
          [] m = "claude-3.5-sonnet" -> "anthropic"
          [] m = "gemini-1.5-flash" ->
                "https://generativelanguage.googleapis.com/v1beta/models/gemini-1.5-flash:generateContent"]

OPENROUTER_MODEL_MAPPING ==
    [m \in {"gemini-2.5-flash-image-preview", "gemini-2.5-flash",
            "gemini-2.5-flash-lite", "gemini-1.5-flash", "claude-sonnet-4.5",
            "claude-3.5-sonnet"} |->
        CASE m = "gemini-2.5-flash-image-preview" -> "google/gemini-2.5-flash-image-preview"
          [] m = "gemini-2.5-flash" -> "google/gemini-2.5-flash"
          [] m = "gemini-2.5-flash-lite" -> "google/gemini-2.5-flash-lite"
          [] m = "gemini-1.5-flash" -> "google/gemini-1.5-flash"
          [] m = "claude-sonnet-4.5" -> "anthropic/claude-3.5-sonnet"
          [] m = "claude-3.5-sonnet" -> "anthropic/claude-3.5-sonnet"]

WEBSITE_ANALYSIS_MODELS ==
    <<"anthropic/claude-3-haiku", "openai/gpt-4o-mini", "openai/gpt-3.5-turbo">>

\* mutant: the free tier has the flash models only
TIER_MODELS_FreeLimited ==
    [t \in {"free", "basic", "premium", "pro", "enterprise"} |->
        IF t = "free" THEN {"gemini-2.5-flash", "gemini-1.5-flash"}
        ELSE DOMAIN ALLOWED_MODELS]

TIER_MODELS ==
    [t \in {"free", "basic", "premium", "pro", "enterprise"} |-> DOMAIN ALLOWED_MODELS]

\* model.startswith("claude"), over the model names of the model
StartsWithClaude(model) ==
    model \in {"claude-sonnet-4.5", "claude-3.5-sonnet", "claude-2"}

\* "image" in model
ContainsImage(model) ==
    model \in {"gemini-2.5-flash-image-preview"}

\* httpx sends a request only to an http(s) URL; the placeholder "anthropic"
\* that validate_model returns for a Claude model is none
IsHttpUrl(endpoint) == endpoint # "anthropic"

----------------------------------------------------------------------------
(* QuotaLedger: user_credits is a defaultdict, a read of a missing user   *)
(* inserts the default account.                                           *)

\* mutant: a new account starts with the basic package
DefaultAccount_BasicPackage ==
    [credits |-> TIER_CREDITS["basic"], tier |-> "free", total_cost |-> NoCost]

DefaultAccount == [credits |-> DefaultCredits, tier |-> "free", total_cost |-> NoCost]

Lookup(uc, user_id) ==
    IF user_id \in DOMAIN uc THEN uc ELSE (user_id :> DefaultAccount) @@ uc

get_tier_credits(tier) ==
    IF tier \in DOMAIN TIER_CREDITS THEN TIER_CREDITS[tier] ELSE TIER_CREDITS["free"]

add_credits_to_user(uc, user_id, tier) ==
    [Lookup(uc, user_id) EXCEPT ![user_id].credits = @ + get_tier_credits(tier),
                                ![user_id].tier = tier]

\* mutant: the stored tier is left as it is
check_user_credits_KeepTier(uc, user_id, tier) ==
    LET uc1 == Lookup(uc, user_id)
    IN  [ledger |-> uc1, ok |-> ~(uc1[user_id].credits <= 0)]

\* mutant: the comparison is `< 0`
check_user_credits_OffByOne(uc, user_id, tier) ==
    LET uc1 == [Lookup(uc, user_id) EXCEPT ![user_id].tier = tier]
    IN  [ledger |-> uc1, ok |-> ~(uc1[user_id].credits < 0)]

\* mutant: the tier is stored only when the check passes
check_user_credits_TierOnSuccess(uc, user_id, tier) ==
    LET uc0 == Lookup(uc, user_id)
        uc1 == [uc0 EXCEPT ![user_id].tier = tier]
    IN  IF uc0[user_id].credits <= 0
        THEN [ledger |-> uc0, ok |-> FALSE]
        ELSE [ledger |-> uc1, ok |-> TRUE]

\* the ledger after the call, and whether the call returned (TRUE) or raised 429
check_user_credits(uc, user_id, tier) ==
    LET uc1 == [Lookup(uc, user_id) EXCEPT ![user_id].tier = tier]
    IN  [ledger |-> uc1, ok |-> ~(uc1[user_id].credits <= 0)]

generation_cost(generation_type) ==
    IF generation_type \in DOMAIN GENERATION_COSTS
    THEN GENERATION_COSTS[generation_type]
    ELSE GENERATION_COSTS["complete"]

\* mutant: an atomic compare-and-decrement, no debit of an empty account
deduct_user_credit_Guarded(uc, user_id, tier, generation_type) ==
    IF Lookup(uc, user_id)[user_id].credits <= 0
    THEN [Lookup(uc, user_id) EXCEPT ![user_id].tier = tier]
    ELSE [Lookup(uc, user_id) EXCEPT ![user_id].credits = @ - 1,
                                     ![user_id].tier = tier,
                                     ![user_id].total_cost = @ + generation_cost(generation_type)]

deduct_user_credit(uc, user_id, tier, generation_type) ==
    [Lookup(uc, user_id) EXCEPT ![user_id].credits = @ - 1,
                                ![user_id].tier = tier,
                                ![user_id].total_cost = @ + generation_cost(generation_type)]

\* no purchase / add-credits request yet
NoAdmin ==
    [endpoint |-> "none", user_id |-> "none", tier |-> "none", credits |-> 0,
     status |-> 0, credits_added |-> 0, total_credits |-> 0]

\* POST /purchase-credits/{user_id}?tier=: the ledger after it and the response
purchase_credits(uc, user_id, tier) ==
    IF tier \notin DOMAIN TIER_CREDITS
    THEN [ledger |-> uc,
          reply |-> [NoAdmin EXCEPT !.endpoint = "purchase-credits", !.user_id = user_id,
                                    !.tier = tier, !.status = 400]]
    ELSE LET uc1 == add_credits_to_user(uc, user_id, tier)
         IN  [ledger |-> uc1,
              reply |-> [NoAdmin EXCEPT !.endpoint = "purchase-credits", !.user_id = user_id,
                                        !.tier = tier, !.status = 200,
                                        !.credits_added = get_tier_credits(tier),
                                        !.total_credits = uc1[user_id].credits]]

\* mutant: the amount is not validated
add_credits_manual_Unchecked(uc, user_id, credits, tier) ==
    LET uc1 == [Lookup(uc, user_id) EXCEPT ![user_id].credits = @ + credits,
                                           ![user_id].tier = tier]
    IN  [ledger |-> uc1,
         reply |-> [NoAdmin EXCEPT !.endpoint = "add-credits", !.user_id = user_id,
                                   !.tier = tier, !.credits = credits, !.status = 200,
                                   !.credits_added = credits,
                                   !.total_credits = uc1[user_id].credits]]

\* POST /add-credits/{user_id}?credits=&tier=: the ledger after it and the response
add_credits_manual(uc, user_id, credits, tier) ==
    IF credits <= 0
    THEN [ledger |-> uc,
          reply |-> [NoAdmin EXCEPT !.endpoint = "add-credits", !.user_id = user_id,
                                    !.tier = tier, !.credits = credits, !.status = 400]]
    ELSE LET uc1 == [Lookup(uc, user_id) EXCEPT ![user_id].credits = @ + credits,
                                                ![user_id].tier = tier]
         IN  [ledger |-> uc1,
              reply |-> [NoAdmin EXCEPT !.endpoint = "add-credits", !.user_id = user_id,
                                        !.tier = tier, !.credits = credits, !.status = 200,
                                        !.credits_added = credits,
                                        !.total_credits = uc1[user_id].credits]]

\* what a read of the account gives, without inserting it
Credits(uc, user_id) == Lookup(uc, user_id)[user_id].credits
TotalCost(uc, user_id) == Lookup(uc, user_id)[user_id].total_cost

----------------------------------------------------------------------------
(* ModelRegistry *)

\* mutant: the allow-list is not consulted
validate_model_Lenient(model) ==
    IF StartsWithClaude(model)
    THEN [ok |-> TRUE, endpoint |-> "anthropic"]
    ELSE [ok |-> TRUE,
          endpoint |-> IF model \in DOMAIN ALLOWED_MODELS THEN ALLOWED_MODELS[model]
                       ELSE "none"]

\* [ok, endpoint]: not ok is HTTP 400
validate_model(model) ==
    IF model \notin DOMAIN ALLOWED_MODELS
    THEN [ok |-> FALSE, endpoint |-> "none"]
    ELSE IF StartsWithClaude(model)
         THEN [ok |-> TRUE, endpoint |-> "anthropic"]
         ELSE [ok |-> TRUE, endpoint |-> ALLOWED_MODELS[model]]

\* mutant: an unknown tier has access to nothing
validate_tier_model_access_Strict(tier, model) ==
    tier \in DOMAIN TIER_MODELS /\ model \in TIER_MODELS[tier]

\* TRUE, or FALSE for HTTP 403
validate_tier_model_access(tier, model) ==
    LET t == IF tier \notin DOMAIN TIER_MODELS THEN "free" ELSE tier
    IN  model \in TIER_MODELS[t]

----------------------------------------------------------------------------
(* CredentialPool: a secret is named by the environment variable holding it *)

NoVersion == "none"

get_default_keys_for_model(model) ==
    CASE model = "gemini-2.5-flash-image-preview" ->
            <<"GEMINI_API_KEY_REVO_1_0_PRIMARY", "GEMINI_API_KEY_REVO_1_0_SECONDARY",
              "GEMINI_API_KEY_REVO_1_0_TERTIARY">>
      [] model \in {"gemini-2.5-flash", "gemini-2.5-flash-lite"} ->
            <<"GEMINI_API_KEY_REVO_1_5_PRIMARY", "GEMINI_API_KEY_REVO_1_5_SECONDARY",
              "GEMINI_API_KEY_REVO_1_5_TERTIARY">>
      [] model \in {"claude-sonnet-4.5", "claude-3.5-sonnet"} -> <<"ANTHROPIC_API_KEY">>
      [] model = "gemini-1.5-flash" -> <<"GEMINI_API_KEY", "GOOGLE_API_KEY">>
      [] OTHER -> <<"GEMINI_API_KEY", "GOOGLE_API_KEY">>

key_env_names(model, revo_version) ==
    CASE revo_version = "2.0" ->
            <<"GEMINI_API_KEY_REVO_2_0_PRIMARY", "GEMINI_API_KEY_REVO_2_0_SECONDARY",
              "GEMINI_API_KEY_REVO_2_0_TERTIARY">>
      [] revo_version = "1.5" ->
            <<"GEMINI_API_KEY_REVO_1_5_PRIMARY", "GEMINI_API_KEY_REVO_1_5_SECONDARY",
              "GEMINI_API_KEY_REVO_1_5_TERTIARY">>
      [] revo_version = "1.0" ->
            <<"GEMINI_API_KEY_REVO_1_0_PRIMARY", "GEMINI_API_KEY_REVO_1_0_SECONDARY",
              "GEMINI_API_KEY_REVO_1_0_TERTIARY">>
      [] OTHER -> get_default_keys_for_model(model)

\* f"GEMINI_API_KEY_REVO_{revo_version.replace('.', '_')}"
legacy_key_name(revo_version) ==
    CASE revo_version = "2.0" -> "GEMINI_API_KEY_REVO_2_0"
      [] revo_version = "1.5" -> "GEMINI_API_KEY_REVO_1_5"
      [] revo_version = "1.0" -> "GEMINI_API_KEY_REVO_1_0"
      [] revo_version = "3.0" -> "GEMINI_API_KEY_REVO_3_0"
      [] OTHER -> "GEMINI_API_KEY_REVO_"

\* the names of `names` that the environment e sets, in order
RECURSIVE present_keys(_, _)
present_keys(e, names) ==
    IF names = <<>> THEN <<>>
    ELSE IF Head(names) \in e
         THEN <<Head(names)>> \o present_keys(e, Tail(names))
         ELSE present_keys(e, Tail(names))

\* mutant: no fallback to the general keys
get_api_keys_for_model_NoGeneral(e, model, revo_version) ==
    LET k1 == present_keys(e, key_env_names(model, revo_version))
        k2 == IF k1 = <<>> /\ revo_version # NoVersion
                 /\ legacy_key_name(revo_version) \in e
              THEN <<legacy_key_name(revo_version)>>
              ELSE k1
    IN  k2

\* mutant: a general key that is set is preferred to the keys of the version
get_api_keys_for_model_GeneralFirst(e, model, revo_version) ==
    LET k1 == present_keys(e, key_env_names(model, revo_version))
        k2 == IF k1 = <<>> /\ revo_version # NoVersion
                 /\ legacy_key_name(revo_version) \in e
              THEN <<legacy_key_name(revo_version)>>
              ELSE k1
    IN  IF "GEMINI_API_KEY" \in e THEN <<"GEMINI_API_KEY">> \o k2
        ELSE IF "GOOGLE_API_KEY" \in e THEN <<"GOOGLE_API_KEY">> \o k2
        ELSE k2

\* the list returned; the empty list stands for the HTTP 500 raised
get_api_keys_for_model(e, model, revo_version) ==
    LET k1 == present_keys(e, key_env_names(model, revo_version))
        k2 == IF k1 = <<>> /\ revo_version # NoVersion
                 /\ legacy_key_name(revo_version) \in e
              THEN <<legacy_key_name(revo_version)>>
              ELSE k1
        k3 == IF k2 = <<>>
              THEN IF "GEMINI_API_KEY" \in e THEN <<"GEMINI_API_KEY">>
                   ELSE IF "GOOGLE_API_KEY" \in e THEN <<"GOOGLE_API_KEY">>
                   ELSE <<>>
              ELSE k2
    IN  k3

----------------------------------------------------------------------------
(* Upstream failures: the text of the exception, by the marker it carries *)

UpstreamErrors ==
    {"429", "500", "503", "timeout", "connection", "quota", "limit", "rate", "400"}

\* httpx.UnsupportedProtocol: the URL has no http(s) scheme, nothing is sent
ProtocolError == "protocol"

fallback_conditions == {"429", "503", "500"}

\* mutant: the flag starts FALSE, only the listed failures try the next key
should_try_next_key_ListedOnly(google_error) ==
    LET initial == FALSE
    IN  IF google_error \in {"429", "503", "500"} THEN TRUE
        ELSE IF google_error \in {"timeout", "connection"} THEN TRUE
        ELSE IF google_error \in {"quota", "limit"} THEN TRUE
        ELSE IF google_error = "rate" THEN TRUE
        ELSE initial

\* the flag the except branch computes before `if should_try_next_key and ...`
should_try_next_key(google_error) ==
    LET initial == TRUE
    IN  IF google_error \in fallback_conditions THEN TRUE
        ELSE IF google_error \in {"timeout", "connection"} THEN TRUE
        ELSE IF google_error \in {"quota", "limit"} THEN TRUE
        ELSE IF google_error = "rate" THEN TRUE
        ELSE initial

\* f"google-key-{i+1}", i+1 = n
google_key_tag(n) ==
    CASE n = 1 -> "google-key-1"
      [] n = 2 -> "google-key-2"
      [] n = 3 -> "google-key-3"
      [] OTHER -> "google-key-n"

----------------------------------------------------------------------------
(* Translation between the Google format and the OpenAI format of OpenRouter *)

\* A Python str that the code takes apart (a URL) is the sequence of its
\* pieces, "," being a piece of its own; a str the code only copies is a
\* string.  A value that the code tests with isinstance is tagged: [str |-> s]
\* or [list |-> l].  A dict is a record, `key in d` is key \in DOMAIN d.

\* d.get(key, default)
Get(d, key, default) == IF key \in DOMAIN d THEN d[key] ELSE default

\* f"data:{mimeType};base64,{data}"
DataUrl(mimeType, data) == <<"data:", mimeType, ";base64", ",">> \o data

\* url.startswith("data:")
StartsWithData(url) == url # << >> /\ Head(url) = "data:"

\* the pieces of url up to its first ",", and what follows that ","
RECURSIVE BeforeComma(_)
BeforeComma(url) ==
    IF url = << >> \/ Head(url) = "," THEN << >>
    ELSE <<Head(url)>> \o BeforeComma(Tail(url))

AfterComma(url) ==
    IF Len(BeforeComma(url)) = Len(url) THEN << >>
    ELSE SubSeq(url, Len(BeforeComma(url)) + 2, Len(url))

\* url.split(",")[1]; an IndexError without a "," in url
SplitSecond(url) == BeforeComma(AfterComma(url))

\* the messages of the parts, in order: a part that has neither "text" nor
\* "inlineData" gives no message
RECURSIVE messages_of(_)
messages_of(content_parts) ==
    IF content_parts = << >> THEN << >>
    ELSE LET part == Head(content_parts)
             rest == messages_of(Tail(content_parts))
         IN  IF "text" \in DOMAIN part
             THEN <<[role |-> "user", content |-> [str |-> part.text]]>> \o rest
             ELSE IF "inlineData" \in DOMAIN part
             THEN <<[role |-> "user",
                     content |-> [list |-> <<[type |-> "image_url",
                                             image_url |-> [url |->
                                                DataUrl(part.inlineData.mimeType,
                                                        part.inlineData.data)]]>>]]>>
                  \o rest
             ELSE rest

DefaultTemperature == 7     \* tenths
DefaultMaxTokens == 8192

\* mutant: the text parts are sent first, the images after them
convert_google_to_openai_format_TextFirst(payload, model) ==
    LET content_parts == Get(Get(payload, "contents", <<[parts |-> << >>]>>)[1],
                             "parts", << >>)
        generation_config == Get(payload, "generationConfig", << >>)
        openai_payload ==
            [model |-> Get(OPENROUTER_MODEL_MAPPING, model, model),
             messages |-> messages_of(SelectSeq(content_parts, LAMBDA p : "text" \in DOMAIN p))
                            \o messages_of(SelectSeq(content_parts,
                                                     LAMBDA p : "text" \notin DOMAIN p)),
             temperature |-> Get(generation_config, "temperature", DefaultTemperature),
             max_tokens |-> Get(generation_config, "maxOutputTokens", DefaultMaxTokens)]
    IN  IF ContainsImage(model)
        THEN [k \in DOMAIN openai_payload \cup {"modalities"} |->
                 IF k = "modalities" THEN <<"image", "text">> ELSE openai_payload[k]]
        ELSE openai_payload

convert_google_to_openai_format(payload, model) ==
    LET content_parts == Get(Get(payload, "contents", <<[parts |-> << >>]>>)[1],
                             "parts", << >>)
        generation_config == Get(payload, "generationConfig", << >>)
        openai_payload ==
            [model |-> Get(OPENROUTER_MODEL_MAPPING, model, model),
             messages |-> messages_of(content_parts),
             temperature |-> Get(generation_config, "temperature", DefaultTemperature),
             max_tokens |-> Get(generation_config, "maxOutputTokens", DefaultMaxTokens)]
    IN  IF ContainsImage(model)
        THEN [k \in DOMAIN openai_payload \cup {"modalities"} |->
                 IF k = "modalities" THEN <<"image", "text">> ELSE openai_payload[k]]
        ELSE openai_payload

\* some item is a "data:" URL without a ",": split(",")[1] raises IndexError
raises_index_error(items) ==
    \E k \in 1..Len(items) :
        /\ Get(items[k], "type", "none") = "image_url"
        /\ LET image_url == Get(Get(items[k], "image_url", << >>), "url", << >>)
           IN  StartsWithData(image_url) /\ Len(BeforeComma(image_url)) = Len(image_url)

\* the parts of the items of a list content, in order: an item that is
\* neither a text nor a "data:" image URL gives no part
RECURSIVE parts_of(_)
parts_of(items) ==
    IF items = << >> THEN << >>
    ELSE LET item == Head(items)
             rest == parts_of(Tail(items))
         IN  IF Get(item, "type", "none") = "text"
             THEN <<[text |-> Get(item, "text", "")]>> \o rest
             ELSE IF Get(item, "type", "none") = "image_url"
             THEN LET image_url == Get(Get(item, "image_url", << >>), "url", << >>)
                  IN  IF StartsWithData(image_url)
                      THEN <<[inlineData |-> [data |-> SplitSecond(image_url),
                                              mimeType |-> "image/jpeg"]]>> \o rest
                      ELSE rest
             ELSE rest

\* the dict returned, or [raised |-> the exception]
convert_openai_to_google_format(openai_response) ==
    LET choices == Get(openai_response, "choices", << >>)
    IN  IF choices = << >> THEN [candidates |-> << >>]
        ELSE IF LET content == Get(Get(choices[1], "message", << >>), "content", [str |-> ""])
                IN  "list" \in DOMAIN content /\ raises_index_error(content.list)
        THEN [raised |-> "IndexError"]
        ELSE LET choice == choices[1]
                 message == Get(choice, "message", << >>)
                 content == Get(message, "content", [str |-> ""])
                 parts == IF "str" \in DOMAIN content THEN <<[text |-> content.str]>>
                          ELSE IF "list" \in DOMAIN content THEN parts_of(content.list)
                          ELSE << >>
             IN  [candidates |-> <<[content |-> [parts |-> parts],
                                    finishReason |-> Get(choice, "finish_reason", "STOP"),
                                    index |-> 0]>>,
                  usageMetadata |-> Get(openai_response, "usage", << >>)]

\* a response of the provider whose one choice carries, as a list content,
\* the segments of the messages it was sent: a text item for a str content,
\* the items of a list content as they are
RECURSIVE echo_items(_)
echo_items(messages) ==
    IF messages = << >> THEN << >>
    ELSE LET content == Head(messages).content
         IN  (IF "str" \in DOMAIN content
              THEN <<[type |-> "text", text |-> content.str]>>
              ELSE content.list) \o echo_items(Tail(messages))

Echo(openai_payload) ==
    [choices |-> <<[message |-> [role |-> "assistant",
                                 content |-> [list |-> echo_items(openai_payload.messages)]],
                    finish_reason |-> "stop"]>>]

\* no payload under way
NoWire == [stage |-> "none"]

----------------------------------------------------------------------------
(* A request slot: the handler's inputs, its local variables, the calls it *)
(* has sent, and the response it has given.                                *)

Idle ==
    [pc |-> "idle", kind |-> "none", user |-> "none", tier |-> "none",
     model |-> "none", revo |-> NoVersion, endpoint |-> "none",
     api_keys |-> <<>>, i |-> 0, last_google_error |-> "none",
     errors |-> <<>>, calls |-> <<>>, lookups |-> 0,
     checked |-> FALSE, seen |-> 0, debits |-> 0,
     outcome |-> "none", status |-> 0, detail |-> "none",
     provider_used |-> "none", model_used |-> "none", user_credits |-> 0,
     attempt |-> 0, reply |-> "none", turn |-> 0, long_enough |-> TRUE]

InFlight(rq) == rq.pc \in {"google", "openrouter", "claude", "analysis"}

Call(to, key, model) == [to |-> to, key |-> key, model |-> model]

\* raise HTTPException(status_code=status, detail=detail) reaching the client
Reject(rq, status, detail) ==
    [rq EXCEPT !.pc = "done", !.outcome = "raised", !.status = status, !.detail = detail]

----------------------------------------------------------------------------
(* FallbackOrchestrator: call_enhanced_api_with_fallback.  An operator     *)
(* here takes and gives a context c = [rq, uc]: the request and the ledger *)

\* mutant: the caller debits once per outbound call of the request
Returned_DebitPerCall(c, provider_used) ==
    IF c.rq.kind \in {"text", "image"}
    THEN LET n == Len(c.rq.calls)
             uc1 == [Lookup(c.uc, c.rq.user) EXCEPT
                        ![c.rq.user].credits = @ - n,
                        ![c.rq.user].tier = c.rq.tier,
                        ![c.rq.user].total_cost = @ + n * generation_cost(c.rq.kind)]
         IN  [rq |-> [c.rq EXCEPT !.pc = "done", !.outcome = "returned", !.status = 200,
                                  !.provider_used = provider_used,
                                  !.model_used = c.rq.model,
                                  !.debits = @ + n,
                                  !.user_credits = uc1[c.rq.user].credits],
              uc |-> uc1]
    ELSE [rq |-> [c.rq EXCEPT !.pc = "done", !.outcome = "returned",
                              !.provider_used = provider_used],
          uc |-> c.uc]

\* mutant: the response reports the balance the Check saw, less the debit
Returned_StaleBalance(c, provider_used) ==
    IF c.rq.kind \in {"text", "image"}
    THEN LET uc1 == deduct_user_credit(c.uc, c.rq.user, c.rq.tier, c.rq.kind)
         IN  [rq |-> [c.rq EXCEPT !.pc = "done", !.outcome = "returned", !.status = 200,
                                  !.provider_used = provider_used,
                                  !.model_used = c.rq.model,
                                  !.debits = @ + 1,
                                  !.user_credits = c.rq.seen - 1],
              uc |-> Lookup(uc1, c.rq.user)]
    ELSE [rq |-> [c.rq EXCEPT !.pc = "done", !.outcome = "returned",
                              !.provider_used = provider_used],
          uc |-> c.uc]

\* what the caller of the orchestrator does with (result, provider_used)
Returned(c, provider_used) ==
    IF c.rq.kind \in {"text", "image"}
    THEN LET uc1 == deduct_user_credit(c.uc, c.rq.user, c.rq.tier, c.rq.kind)
         IN  [rq |-> [c.rq EXCEPT !.pc = "done", !.outcome = "returned", !.status = 200,
                                  !.provider_used = provider_used,
                                  !.model_used = c.rq.model,
                                  !.debits = @ + 1,
                                  !.user_credits = Lookup(uc1, c.rq.user)[c.rq.user].credits],
              uc |-> Lookup(uc1, c.rq.user)]
    ELSE [rq |-> [c.rq EXCEPT !.pc = "done", !.outcome = "returned",
                              !.provider_used = provider_used],
          uc |-> c.uc]

\* mutant: the debit is made before the outcome is known
Raised_AfterDebit(c, error) ==
    IF c.rq.kind \in {"text", "image"}
    THEN [rq |-> Reject([c.rq EXCEPT !.debits = @ + 1], 503, error),
          uc |-> deduct_user_credit(c.uc, c.rq.user, c.rq.tier, c.rq.kind)]
    ELSE [rq |-> [c.rq EXCEPT !.pc = "done", !.outcome = "raised", !.detail = error],
          uc |-> c.uc]

\* what the caller does with the exception the orchestrator raises
Raised(c, error) ==
    IF c.rq.kind \in {"text", "image"}
    THEN [rq |-> Reject(c.rq, 503, error), uc |-> c.uc]
    ELSE [rq |-> [c.rq EXCEPT !.pc = "done", !.outcome = "raised", !.detail = error],
          uc |-> c.uc]

\* mutant: every attempt uses the first key
TryKey_FirstKeyAgain(rq, n) ==
    [rq EXCEPT !.pc = "google", !.i = n,
               !.calls = IF IsHttpUrl(rq.endpoint)
                         THEN Append(@, Call("google", rq.api_keys[1], rq.model))
                         ELSE @]

\* mutant: the attempt with key n and the attempt with the key after it are
\* sent together
TryKey_Raced(rq, n) ==
    [rq EXCEPT !.pc = "google", !.i = n,
               !.calls = IF IsHttpUrl(rq.endpoint)
                         THEN IF n < Len(rq.api_keys)
                              THEN @ \o <<Call("google", rq.api_keys[n], rq.model),
                                          Call("google", rq.api_keys[n + 1], rq.model)>>
                              ELSE Append(@, Call("google", rq.api_keys[n], rq.model))
                         ELSE @]

\* the call to call_google_api with api_keys[n]
TryKey(rq, n) ==
    [rq EXCEPT !.pc = "google", !.i = n,
               !.calls = IF IsHttpUrl(rq.endpoint)
                         THEN Append(@, Call("google", rq.api_keys[n], rq.model))
                         ELSE @]

\* mutant: no OpenRouter fallback
AfterKeys_NoFallback(c, e) ==
    Raised(c, c.rq.last_google_error)

\* mutant: the OpenRouter call is sent whether the secret is set or not
AfterKeys_CallsAnyway(c, e) ==
    IF c.rq.model \in DOMAIN OPENROUTER_MODEL_MAPPING
    THEN [rq |-> [c.rq EXCEPT !.pc = "openrouter",
                     !.calls = Append(@, Call("openrouter", "OPENROUTER_API_KEY",
                                              OPENROUTER_MODEL_MAPPING[c.rq.model]))],
          uc |-> c.uc]
    ELSE Raised(c, c.rq.last_google_error)

\* after the loop over the keys: the OpenRouter fallback, or the raise
AfterKeys(c, e) ==
    IF c.rq.model \in DOMAIN OPENROUTER_MODEL_MAPPING
    THEN IF "OPENROUTER_API_KEY" \notin e
         THEN Raised(c, c.rq.last_google_error)
         ELSE [rq |-> [c.rq EXCEPT !.pc = "openrouter",
                          !.calls = Append(@, Call("openrouter", "OPENROUTER_API_KEY",
                                                   OPENROUTER_MODEL_MAPPING[c.rq.model]))],
               uc |-> c.uc]
    ELSE Raised(c, c.rq.last_google_error)

\* mutant: the first failed attempt ends the operation
KeyFailed_GiveUp(c, e, error) ==
    Raised([rq |-> [c.rq EXCEPT !.last_google_error = error,
                                !.errors = Append(@, error)],
            uc |-> c.uc], error)

\* mutant: last_google_error keeps the first exception
KeyFailed_KeepFirst(c, e, error) ==
    LET rq1 == [c.rq EXCEPT !.last_google_error = IF @ = "none" THEN error ELSE @,
                            !.errors = Append(@, error)]
    IN  IF should_try_next_key(error) /\ rq1.i < Len(rq1.api_keys)
        THEN [rq |-> TryKey(rq1, rq1.i + 1), uc |-> c.uc]
        ELSE AfterKeys([rq |-> rq1, uc |-> c.uc], e)

\* mutant: the key that failed first is tried once more
KeyFailed_RetryOnce(c, e, error) ==
    LET rq1 == [c.rq EXCEPT !.last_google_error = error,
                            !.errors = Append(@, error)]
    IN  IF Len(rq1.errors) = 1
        THEN [rq |-> TryKey(rq1, rq1.i), uc |-> c.uc]
        ELSE IF should_try_next_key(error) /\ rq1.i < Len(rq1.api_keys)
        THEN [rq |-> TryKey(rq1, rq1.i + 1), uc |-> c.uc]
        ELSE AfterKeys([rq |-> rq1, uc |-> c.uc], e)

\* mutant: with a version hint the loop stops at the first failure
KeyFailed_HintStopsEarly(c, e, error) ==
    LET rq1 == [c.rq EXCEPT !.last_google_error = error,
                            !.errors = Append(@, error)]
    IN  IF c.rq.revo = NoVersion /\ should_try_next_key(error) /\ rq1.i < Len(rq1.api_keys)
        THEN [rq |-> TryKey(rq1, rq1.i + 1), uc |-> c.uc]
        ELSE AfterKeys([rq |-> rq1, uc |-> c.uc], e)

\* the except branch of the loop, for the exception `error` of attempt rq.i
KeyFailed(c, e, error) ==
    LET rq1 == [c.rq EXCEPT !.last_google_error = error,
                            !.errors = Append(@, error)]
    IN  IF should_try_next_key(error) /\ rq1.i < Len(rq1.api_keys)
        THEN [rq |-> TryKey(rq1, rq1.i + 1), uc |-> c.uc]
        ELSE AfterKeys([rq |-> rq1, uc |-> c.uc], e)

\* what call_openrouter_api raises: f"OpenRouter API error: {status_code}"
\* or the exception of httpx, a text no error of call_google_api has
OpenRouterErrors == {"openrouter-429", "openrouter-500", "openrouter-timeout"}

\* mutant: the fallback's own exception is raised
OpenRouterFailed_OwnError(c, openrouter_error) ==
    Raised(c, openrouter_error)

\* except Exception as openrouter_error: raise last_google_error or openrouter_error
OpenRouterFailed(c, openrouter_error) ==
    Raised(c, IF c.rq.last_google_error # "none"
              THEN c.rq.last_google_error
              ELSE openrouter_error)

\* mutant: once a request has seen a key fail, the list is walked backwards
call_enhanced_api_with_fallback_Rerank(c, e) ==
    LET found == get_api_keys_for_model(e, c.rq.model, c.rq.revo)
        keys == IF \E r \in DOMAIN req : req[r].errors # <<>>
                THEN [k \in 1..Len(found) |-> found[Len(found) + 1 - k]]
                ELSE found
        rq1 == [c.rq EXCEPT !.lookups = @ + 1, !.api_keys = keys]
    IN  IF keys = <<>>
        THEN IF c.rq.kind \in {"text", "image"}
             THEN [rq |-> Reject(rq1, 503, "no-keys"), uc |-> c.uc]
             ELSE [rq |-> Reject(rq1, 500, "no-keys"), uc |-> c.uc]
        ELSE [rq |-> TryKey(rq1, 1), uc |-> c.uc]

\* entry: resolve the keys (HTTP 500 when there are none), try the first
call_enhanced_api_with_fallback(c, e) ==
    LET keys == get_api_keys_for_model(e, c.rq.model, c.rq.revo)
        rq1 == [c.rq EXCEPT !.lookups = @ + 1, !.api_keys = keys]
    IN  IF keys = <<>>
        THEN IF c.rq.kind \in {"text", "image"}
             THEN [rq |-> Reject(rq1, 503, "no-keys"), uc |-> c.uc]
             ELSE [rq |-> Reject(rq1, 500, "no-keys"), uc |-> c.uc]
        ELSE [rq |-> TryKey(rq1, 1), uc |-> c.uc]

----------------------------------------------------------------------------
(* Gateway API: the handlers up to their first outbound call *)

\* mutant: check_user_credits runs first
Admit_CheckFirst(rq, uc, e) ==
    LET vm == validate_model(rq.model)
        chk == check_user_credits(uc, rq.user, rq.tier)
        keys == get_api_keys_for_model(e, rq.model, rq.revo)
        rq1 == [rq EXCEPT !.checked = TRUE, !.seen = chk.ledger[rq.user].credits]
        rq2 == [rq1 EXCEPT !.endpoint = vm.endpoint]
        rq3 == [rq2 EXCEPT !.lookups = @ + 1, !.api_keys = keys]
    IN  IF ~chk.ok THEN [rq |-> Reject(rq1, 429, "no-credits"), uc |-> chk.ledger]
        ELSE IF ~vm.ok
        THEN [rq |-> Reject(rq1, 400, "model-not-allowed"), uc |-> chk.ledger]
        ELSE IF ~validate_tier_model_access(rq.tier, rq.model)
        THEN [rq |-> Reject(rq2, 403, "tier-forbidden"), uc |-> chk.ledger]
        ELSE IF keys = <<>>
        THEN [rq |-> Reject(rq3, 500, "no-keys"), uc |-> chk.ledger]
        ELSE [rq |-> rq3, uc |-> chk.ledger]

\* validate_model, validate_tier_model_access, check_user_credits and
\* get_api_key_for_model, in the order /generate-text and /generate-image run
\* them; the context after them, with rq.pc = "done" when one of them raised
Admit(rq, uc, e) ==
    LET vm == validate_model(rq.model)
        chk == check_user_credits(uc, rq.user, rq.tier)
        keys == get_api_keys_for_model(e, rq.model, rq.revo)
        rq1 == [rq EXCEPT !.endpoint = vm.endpoint]
        rq2 == [rq1 EXCEPT !.checked = TRUE, !.seen = chk.ledger[rq.user].credits]
        rq3 == [rq2 EXCEPT !.lookups = @ + 1, !.api_keys = keys]
    IN  IF ~vm.ok THEN [rq |-> Reject(rq, 400, "model-not-allowed"), uc |-> uc]
        ELSE IF ~validate_tier_model_access(rq.tier, rq.model)
        THEN [rq |-> Reject(rq1, 403, "tier-forbidden"), uc |-> uc]
        ELSE IF ~chk.ok
        THEN [rq |-> Reject(rq2, 429, "no-credits"), uc |-> chk.ledger]
        ELSE IF keys = <<>>
        THEN [rq |-> Reject(rq3, 500, "no-keys"), uc |-> chk.ledger]
        ELSE [rq |-> rq3, uc |-> chk.ledger]

\* /generate-text up to its first await
generate_text(rq, uc, e) ==
    LET c == Admit(rq, uc, e)
    IN  IF c.rq.pc = "done" THEN c
        ELSE IF StartsWithClaude(c.rq.model)
        THEN [rq |-> [c.rq EXCEPT !.pc = "claude",
                         !.calls = Append(@, Call("anthropic", c.rq.api_keys[1], c.rq.model))],
              uc |-> c.uc]
        ELSE call_enhanced_api_with_fallback(c, e)

\* /generate-image up to its first await
generate_image(rq, uc, e) ==
    LET c == Admit(rq, uc, e)
    IN  IF c.rq.pc = "done" THEN c
        ELSE call_enhanced_api_with_fallback(c, e)

\* the call to call_website_analysis_api with WEBSITE_ANALYSIS_MODELS[n]; the
\* Authorization header carries OPENROUTER_API_KEY whether it is set or not
TryAnalysisModel(rq, n) ==
    [rq EXCEPT !.pc = "analysis", !.i = n,
               !.calls = Append(@, Call("openrouter", "OPENROUTER_API_KEY",
                                        WEBSITE_ANALYSIS_MODELS[n]))]

\* mutant: the content is validated before the credits are checked
analyze_website_endpoint_ContentFirst(rq0, uc, long_enough) ==
    LET rq == [rq0 EXCEPT !.long_enough = long_enough]
        chk == check_user_credits(uc, rq.user, rq.tier)
        rq1 == [rq EXCEPT !.checked = TRUE, !.seen = chk.ledger[rq.user].credits]
    IN  IF ~long_enough
        THEN [rq |-> Reject(rq, 400, "content-too-short"), uc |-> uc]
        ELSE IF ~chk.ok THEN [rq |-> Reject(rq1, 429, "no-credits"), uc |-> chk.ledger]
        ELSE [rq |-> TryAnalysisModel(rq1, 1), uc |-> chk.ledger]

\* /analyze-website up to its first await; long_enough: len(content) >= 100
analyze_website_endpoint(rq0, uc, long_enough) ==
    LET rq == [rq0 EXCEPT !.long_enough = long_enough]
        chk == check_user_credits(uc, rq.user, rq.tier)
        rq1 == [rq EXCEPT !.checked = TRUE, !.seen = chk.ledger[rq.user].credits]
    IN  IF ~chk.ok THEN [rq |-> Reject(rq1, 429, "no-credits"), uc |-> chk.ledger]
        ELSE IF ~long_enough
        THEN [rq |-> Reject(rq1, 400, "content-too-short"), uc |-> chk.ledger]
        ELSE [rq |-> TryAnalysisModel(rq1, 1), uc |-> chk.ledger]

\* the replies a model of the analysis chain can give
AnalysisReplies == {"valid", "incomplete", "invalid_json", "no_choices", "error"}

\* what call_website_analysis_api raises: f"Website Analysis API error:
\* {status_code}" or the exception of httpx
AnalysisErrors == {"error", "analysis-429", "analysis-timeout"}

\* f"All website analysis models failed. Last error: {e}"
AllModelsFailed(e) ==
    CASE e = "analysis-429" -> "All website analysis models failed. Last error: analysis-429"
      [] e = "analysis-timeout" -> "All website analysis models failed. Last error: analysis-timeout"
      [] OTHER -> "All website analysis models failed. Last error: error"

\* the response of /analyze-website after a reply that passed validation
AnalysisDone(c, units) ==
    LET uc1 == deduct_user_credit(c.uc, c.rq.user, c.rq.tier, "website_analysis")
        uc2 == IF units = 2
               THEN deduct_user_credit(uc1, c.rq.user, c.rq.tier, "website_analysis")
               ELSE [uc1 EXCEPT ![c.rq.user].credits = @ - (units - 1)]
    IN  [rq |-> [c.rq EXCEPT !.pc = "done", !.outcome = "returned", !.status = 200,
                             !.provider_used = "openrouter",
                             !.model_used = WEBSITE_ANALYSIS_MODELS[c.rq.i],
                             !.attempt = c.rq.i,
                             !.debits = @ + units,
                             !.user_credits = uc2[c.rq.user].credits],
         uc |-> uc2]

\* mutant: 2 credits for each model that was called
AnalysisStep_DebitPerModel(c0, reply) ==
    LET last == Len(WEBSITE_ANALYSIS_MODELS)
        c == [c0 EXCEPT !.rq.reply = reply]
    IN  IF reply = "valid"
        THEN AnalysisDone(c, 2 * c.rq.i)
        ELSE IF reply \in AnalysisErrors /\ c.rq.i = last
        THEN [rq |-> Reject(c.rq, 500, AllModelsFailed(reply)), uc |-> c.uc]
        ELSE IF c.rq.i < last
        THEN [rq |-> TryAnalysisModel(c.rq, c.rq.i + 1), uc |-> c.uc]
        ELSE [rq |-> Reject(c.rq, 500, "Website analysis failed with all models"), uc |-> c.uc]

\* mutant: the required fields are not validated
AnalysisStep_AcceptIncomplete(c0, reply) ==
    LET last == Len(WEBSITE_ANALYSIS_MODELS)
        c == [c0 EXCEPT !.rq.reply = reply]
    IN  IF reply \in {"valid", "incomplete"}
        THEN AnalysisDone(c, 2)
        ELSE IF reply \in AnalysisErrors /\ c.rq.i = last
        THEN [rq |-> Reject(c.rq, 500, AllModelsFailed(reply)), uc |-> c.uc]
        ELSE IF c.rq.i < last
        THEN [rq |-> TryAnalysisModel(c.rq, c.rq.i + 1), uc |-> c.uc]
        ELSE [rq |-> Reject(c.rq, 500, "Website analysis failed with all models"), uc |-> c.uc]

\* analyze_website_with_fallback and its caller, from the reply of model rq.i
\* (rq.reply keeps the reply)
AnalysisStep(c0, reply) ==
    LET last == Len(WEBSITE_ANALYSIS_MODELS)
        c == [c0 EXCEPT !.rq.reply = reply]
    IN  IF reply = "valid"
        THEN AnalysisDone(c, 2)
        ELSE IF reply \in AnalysisErrors /\ c.rq.i = last
        THEN [rq |-> Reject(c.rq, 500, AllModelsFailed(reply)), uc |-> c.uc]
        ELSE IF c.rq.i < last
        THEN [rq |-> TryAnalysisModel(c.rq, c.rq.i + 1), uc |-> c.uc]
        ELSE [rq |-> Reject(c.rq, 500, "Website analysis failed with all models"), uc |-> c.uc]

----------------------------------------------------------------------------
(* Inputs *)

Users == {"u1"}
Tiers == {"basic", "vip"}
Models == {"gemini-2.5-flash", "claude-3.5-sonnet", "gemini-2.5-pro"}
Versions == {NoVersion}
Errors == {"429"}
OrErrors == {"openrouter-429"}

Envs ==
    { {"GEMINI_API_KEY_REVO_1_5_PRIMARY", "GEMINI_API_KEY_REVO_1_5_SECONDARY",
       "ANTHROPIC_API_KEY", "OPENROUTER_API_KEY"},
      {"GEMINI_API_KEY"},
      {} }

\* the ledgers the server can hold when the requests of the model arrive
Ledgers ==
    { << >> } \cup
    { ("u1" :> [credits |-> n, tier |-> "free", total_cost |-> NoCost]) : n \in 0..MaxInitCredits }

----------------------------------------------------------------------------
(* Actions *)

\* the inputs of a request, in a fresh slot
Start(r, kind, user_id, user_tier, model, revo_version) ==
    [Idle EXCEPT !.kind = kind, !.user = user_id, !.tier = user_tier,
                 !.model = model, !.revo = revo_version]

\* slot r is free, and is the lowest free slot: slots fill in arrival order
Free(r) ==
    /\ req[r].pc = "idle"
    /\ \A q \in Req : q < r => req[q].pc # "idle"

Step(r, c) ==
    /\ req' = [req EXCEPT ![r] = c.rq]
    /\ user_credits' = c.uc
    /\ UNCHANGED <<env, grants, ledger0, granted, admin, wire>>

GenerateText(r, user_id, user_tier, model, revo_version) ==
    /\ Free(r)
    /\ Step(r, generate_text(Start(r, "text", user_id, user_tier, model, revo_version),
                             user_credits, env))

GenerateImage(r, user_id, user_tier, model, revo_version) ==
    /\ Free(r)
    /\ Step(r, generate_image(Start(r, "image", user_id, user_tier, model, revo_version),
                              user_credits, env))

AnalyzeWebsite(r, user_id, user_tier, long_enough) ==
    /\ Free(r)
    /\ Step(r, analyze_website_endpoint(
                   Start(r, "analyze", user_id, user_tier, "none", NoVersion),
                   user_credits, long_enough))

\* call_google_api returns HTTP 200
GoogleSuccess(r) ==
    /\ req[r].pc = "google"
    /\ IsHttpUrl(req[r].endpoint)
    /\ Step(r, Returned([rq |-> req[r], uc |-> user_credits], google_key_tag(req[r].i)))

\* call_google_api raises
GoogleFailure(r, error) ==
    /\ req[r].pc = "google"
    /\ IsHttpUrl(req[r].endpoint) <=> error # ProtocolError
    /\ Step(r, KeyFailed([rq |-> req[r], uc |-> user_credits], env, error))

\* call_openrouter_api returns
OpenRouterSuccess(r) ==
    /\ req[r].pc = "openrouter"
    /\ Step(r, Returned([rq |-> req[r], uc |-> user_credits], "openrouter"))

\* call_openrouter_api raises: `raise last_google_error or openrouter_error`
OpenRouterFailure(r, error) ==
    /\ req[r].pc = "openrouter"
    /\ Step(r, OpenRouterFailed([rq |-> req[r], uc |-> user_credits], error))

\* call_claude_api returns
ClaudeSuccess(r) ==
    /\ req[r].pc = "claude"
    /\ Step(r, Returned([rq |-> req[r], uc |-> user_credits], "claude"))

\* call_claude_api raises
ClaudeFailure(r, error) ==
    /\ req[r].pc = "claude"
    /\ Step(r, Raised([rq |-> req[r], uc |-> user_credits], error))

\* call_website_analysis_api returns (HTTP 200, the reply classified by what
\* the chain makes of it) or raises (AnalysisErrors); OpenRouter gives no 200 to a
\* request that carries no secret
AnalysisReply(r, reply) ==
    /\ req[r].pc = "analysis"
    /\ reply \notin AnalysisErrors => "OPENROUTER_API_KEY" \in env
    /\ Step(r, AnalysisStep([rq |-> req[r], uc |-> user_credits], reply))

\* POST /purchase-credits/{user_id}
PurchaseCredits(user_id, tier) ==
    LET done == purchase_credits(user_credits, user_id, tier)
    IN  /\ grants < MaxGrants
        /\ grants' = grants + 1
        /\ user_credits' = done.ledger
        /\ admin' = done.reply
        /\ granted' = [granted EXCEPT ![user_id] = @ + done.reply.credits_added]
        /\ UNCHANGED <<env, req, ledger0, wire>>

\* POST /add-credits/{user_id}
AddCreditsManual(user_id, credits, tier) ==
    LET done == add_credits_manual(user_credits, user_id, credits, tier)
    IN  /\ grants < MaxGrants
        /\ grants' = grants + 1
        /\ user_credits' = done.ledger
        /\ admin' = done.reply
        /\ granted' = [granted EXCEPT ![user_id] = @ + done.reply.credits_added]
        /\ UNCHANGED <<env, req, ledger0, wire>>

\* a direct call of call_enhanced_api_with_fallback(endpoint, payload, model,
\* revo_version), as a unit test of the orchestrator makes it
Execute(r, endpoint, model, revo_version) ==
    /\ Free(r)
    /\ Step(r, call_enhanced_api_with_fallback(
                   [rq |-> [Start(r, "execute", "none", "none", model, revo_version)
                               EXCEPT !.endpoint = endpoint],
                    uc |-> user_credits], env))

Init ==
    /\ user_credits \in Ledgers
    /\ env \in Envs
    /\ req = [r \in Req |-> Idle]
    /\ grants = 0
    /\ ledger0 = user_credits
    /\ granted = [u \in Users |-> 0]
    /\ admin = NoAdmin
    /\ wire = NoWire

Next ==
    \/ \E r \in Req, u \in Users, t \in Tiers, m \in Models, v \in Versions :
            GenerateText(r, u, t, m, v)
    \/ \E r \in Req, u \in Users, t \in Tiers, m \in Models, v \in Versions :
            GenerateImage(r, u, t, m, v)
    \/ \E r \in Req, u \in Users, t \in Tiers, b \in BOOLEAN :
            AnalyzeWebsite(r, u, t, b)
    \/ \E r \in Req : GoogleSuccess(r)
    \/ \E r \in Req, x \in Errors \cup {ProtocolError} : GoogleFailure(r, x)
    \/ \E r \in Req : OpenRouterSuccess(r)
    \/ \E r \in Req, x \in OrErrors : OpenRouterFailure(r, x)
    \/ \E r \in Req : ClaudeSuccess(r)
    \/ \E r \in Req, x \in Errors : ClaudeFailure(r, x)
    \/ \E r \in Req, y \in AnalysisReplies : AnalysisReply(r, y)
    \/ \E u \in Users, t \in Tiers : PurchaseCredits(u, t)
    \/ \E u \in Users, n \in 0..MaxManualCredits, t \in Tiers : AddCreditsManual(u, n, t)

Spec == Init /\ [][Next]_vars

----------------------------------------------------------------------------
(* The orchestrator alone: one call of call_enhanced_api_with_fallback,    *)
(* over the environments, models, version hints and upstream errors below *)

ChainModels ==
    {"gemini-2.5-flash", "gemini-2.5-flash-image-preview", "gemini-1.5-flash",
     "claude-3.5-sonnet", "gemini-2.0-flash"}

ChainVersions == {NoVersion, "1.0", "1.5", "2.0", "3.0"}

ChainEnvs ==
    { {"GEMINI_API_KEY_REVO_1_5_PRIMARY", "GEMINI_API_KEY_REVO_1_5_SECONDARY",
       "GEMINI_API_KEY_REVO_1_5_TERTIARY", "OPENROUTER_API_KEY"},
      {"GEMINI_API_KEY_REVO_1_5_PRIMARY", "GEMINI_API_KEY_REVO_1_5_SECONDARY",
       "GEMINI_API_KEY_REVO_1_5_TERTIARY"},
      {"GEMINI_API_KEY_REVO_1_5_PRIMARY", "GEMINI_API_KEY_REVO_1_5_TERTIARY",
       "OPENROUTER_API_KEY"},
      {"GEMINI_API_KEY_REVO_1_0_PRIMARY", "GEMINI_API_KEY_REVO_1_0_SECONDARY",
       "GEMINI_API_KEY_REVO_1_0_TERTIARY", "GEMINI_API_KEY_REVO_2_0_PRIMARY",
       "ANTHROPIC_API_KEY", "OPENROUTER_API_KEY"},
      {"GEMINI_API_KEY_REVO_1_5", "GEMINI_API_KEY", "OPENROUTER_API_KEY"},
      {"GEMINI_API_KEY", "GOOGLE_API_KEY", "OPENROUTER_API_KEY"},
      {"GOOGLE_API_KEY"},
      {"OPENROUTER_API_KEY"} }

\* the endpoint a caller passes for `model`: validate_model's for an allowed
\* model, the Google URL of the model otherwise
EndpointOf(model) ==
    IF validate_model(model).ok THEN validate_model(model).endpoint
    ELSE "https://generativelanguage.googleapis.com/v1beta/models/gemini-2.0-flash:generateContent"

InitChain ==
    /\ user_credits = << >>
    /\ env \in ChainEnvs
    /\ req = [r \in Req |-> Idle]
    /\ grants = 0
    /\ ledger0 = user_credits
    /\ granted = [u \in Users |-> 0]
    /\ admin = NoAdmin
    /\ wire = NoWire

NextChain ==
    \/ \E m \in ChainModels, v \in ChainVersions : Execute(1, EndpointOf(m), m, v)
    \/ GoogleSuccess(1)
    \/ \E x \in UpstreamErrors \cup {ProtocolError} : GoogleFailure(1, x)
    \/ OpenRouterSuccess(1)
    \/ \E x \in OpenRouterErrors : OpenRouterFailure(1, x)

SpecChain == InitChain /\ [][NextChain]_vars

----------------------------------------------------------------------------
(* The orchestrator called for one request after another, or for requests  *)
(* that overlap, in one process: the environment is read at every call     *)

PoolModels == {"gemini-2.5-flash", "gemini-1.5-flash"}

PoolVersions == {NoVersion, "1.0"}

PoolErrors == {"429", "400"}

PoolEnvs ==
    { {"GEMINI_API_KEY_REVO_1_5_PRIMARY", "GEMINI_API_KEY_REVO_1_5_SECONDARY",
       "GEMINI_API_KEY_REVO_1_0_PRIMARY", "GEMINI_API_KEY_REVO_1_0_TERTIARY",
       "GEMINI_API_KEY", "GOOGLE_API_KEY", "OPENROUTER_API_KEY"},
      {"GEMINI_API_KEY_REVO_1_5_SECONDARY", "GEMINI_API_KEY_REVO_1_5_TERTIARY",
       "GEMINI_API_KEY_REVO_1_0", "GOOGLE_API_KEY"} }

InitPool ==
    /\ user_credits = << >>
    /\ env \in PoolEnvs
    /\ req = [r \in Req |-> Idle]
    /\ grants = 0
    /\ ledger0 = user_credits
    /\ granted = [u \in Users |-> 0]
    /\ admin = NoAdmin
    /\ wire = NoWire

NextPool ==
    \/ \E r \in Req, m \in PoolModels, v \in PoolVersions : Execute(r, EndpointOf(m), m, v)
    \/ \E r \in Req : GoogleSuccess(r)
    \/ \E r \in Req, x \in PoolErrors : GoogleFailure(r, x)
    \/ \E r \in Req : OpenRouterSuccess(r)
    \/ \E r \in Req, x \in OrErrors : OpenRouterFailure(r, x)

SpecPool == InitPool /\ [][NextPool]_vars

----------------------------------------------------------------------------
(* The gateway serving one request: /generate-text, /generate-image or     *)
(* /analyze-website, over the models, tiers, version hints, environments   *)
(* and upstream errors below                                               *)

GatewayModels ==
    {"gemini-2.5-flash", "gemini-1.5-flash", "gemini-2.5-flash-image-preview",
     "claude-3.5-sonnet", "claude-sonnet-4.5", "gemini-2.5-pro"}

GatewayVersions == {NoVersion, "1.5", "3.0"}

GatewayTiers == {"free", "pro", "vip"}

GatewayErrors == {"429", "400", "timeout"}

GatewayEnvs ==
    { {"GEMINI_API_KEY_REVO_1_5_PRIMARY", "GEMINI_API_KEY_REVO_1_5_SECONDARY",
       "GEMINI_API_KEY_REVO_1_5_TERTIARY", "ANTHROPIC_API_KEY", "OPENROUTER_API_KEY"},
      {"GEMINI_API_KEY_REVO_1_5_PRIMARY", "ANTHROPIC_API_KEY"},
      {"GEMINI_API_KEY_REVO_1_0_PRIMARY", "GEMINI_API_KEY", "OPENROUTER_API_KEY"},
      {"GEMINI_API_KEY_REVO_3_0", "OPENROUTER_API_KEY"},
      {"GOOGLE_API_KEY", "OPENROUTER_API_KEY"},
      {"OPENROUTER_API_KEY"},
      {} }

InitGateway ==
    /\ user_credits \in Ledgers
    /\ env \in GatewayEnvs
    /\ req = [r \in Req |-> Idle]
    /\ grants = 0
    /\ ledger0 = user_credits
    /\ granted = [u \in Users |-> 0]
    /\ admin = NoAdmin
    /\ wire = NoWire

NextGateway ==
    \/ \E u \in Users, t \in GatewayTiers, m \in GatewayModels, v \in GatewayVersions :
            GenerateText(1, u, t, m, v)
    \/ \E u \in Users, t \in GatewayTiers, m \in GatewayModels, v \in GatewayVersions :
            GenerateImage(1, u, t, m, v)
    \/ \E u \in Users, t \in GatewayTiers, b \in BOOLEAN : AnalyzeWebsite(1, u, t, b)
    \/ GoogleSuccess(1)
    \/ \E x \in GatewayErrors \cup {ProtocolError} : GoogleFailure(1, x)
    \/ OpenRouterSuccess(1)
    \/ \E x \in OpenRouterErrors : OpenRouterFailure(1, x)
    \/ ClaudeSuccess(1)
    \/ \E x \in GatewayErrors : ClaudeFailure(1, x)
    \/ \E y \in AnalysisReplies \cup AnalysisErrors : AnalysisReply(1, y)

SpecGateway == InitGateway /\ [][NextGateway]_vars

\* the outbound call of the request comes back: httpx returns the response or
\* raises, at the latest when the timeout of the client expires
CallComesBack ==
    \/ GoogleSuccess(1)
    \/ \E x \in GatewayErrors \cup {ProtocolError} : GoogleFailure(1, x)
    \/ OpenRouterSuccess(1)
    \/ \E x \in OpenRouterErrors : OpenRouterFailure(1, x)
    \/ ClaudeSuccess(1)
    \/ \E x \in GatewayErrors : ClaudeFailure(1, x)
    \/ \E y \in AnalysisReplies \cup AnalysisErrors : AnalysisReply(1, y)

\* the gateway when every outbound call eventually returns or times out
SpecGatewayLive == SpecGateway /\ WF_vars(CallComesBack)

----------------------------------------------------------------------------
(* The ledger alone: a caller (slot 1) applies check_user_credits and       *)
(* deduct_user_credit directly, as a unit test does, and the account       *)
(* endpoints are requested, over the tier names and generation types below.*)
(* The slot keeps the last call and its result; turn flips at every call.  *)

LedgerTiers == {"basic", "pro", "vip"}

GenerationTypes == {"text", "website_analysis"}

\* check_user_credits(user_id, tier) called directly
CheckUserCredits(user_id, tier) ==
    LET chk == check_user_credits(user_credits, user_id, tier)
        rq == [req[1] EXCEPT !.pc = "done", !.kind = "check", !.user = user_id,
                             !.tier = tier, !.checked = TRUE, !.turn = 1 - @,
                             !.seen = chk.ledger[user_id].credits]
    IN  Step(1, [rq |-> IF chk.ok
                        THEN [rq EXCEPT !.outcome = "returned", !.status = 0,
                                        !.detail = "none"]
                        ELSE Reject(rq, 429, "no-credits"),
                 uc |-> chk.ledger])

\* deduct_user_credit(user_id, tier, generation_type) called directly
DeductUserCredit(user_id, tier, generation_type) ==
    /\ req[1].debits < MaxDebits
    /\ Step(1, [rq |-> [req[1] EXCEPT !.pc = "done", !.kind = "debit", !.user = user_id,
                                      !.tier = tier, !.outcome = "returned",
                                      !.status = 0, !.detail = "none",
                                      !.debits = @ + 1, !.turn = 1 - @],
                uc |-> deduct_user_credit(user_credits, user_id, tier, generation_type)])

\* GET /credits/{user_id}: reads user_credits[user_id]
GetUserCredits(user_id) ==
    /\ user_credits' = Lookup(user_credits, user_id)
    /\ UNCHANGED <<env, req, grants, ledger0, granted, admin, wire>>

InitLedger ==
    /\ user_credits \in Ledgers
    /\ env = {}
    /\ req = [r \in Req |-> Idle]
    /\ grants = 0
    /\ ledger0 = user_credits
    /\ granted = [u \in Users |-> 0]
    /\ admin = NoAdmin
    /\ wire = NoWire

NextLedger ==
    \/ \E u \in Users, t \in LedgerTiers : CheckUserCredits(u, t)
    \/ \E u \in Users, t \in LedgerTiers, g \in GenerationTypes : DeductUserCredit(u, t, g)
    \/ \E u \in Users : GetUserCredits(u)
    \/ \E u \in Users, t \in LedgerTiers : PurchaseCredits(u, t)
    \/ \E u \in Users, n \in -1..MaxManualCredits, t \in LedgerTiers :
            AddCreditsManual(u, n, t)

SpecLedger == InitLedger /\ [][NextLedger]_vars

----------------------------------------------------------------------------
(* The translators alone: a Google payload is converted for OpenRouter, the *)
(* provider answers with the segments it was sent, the answer is converted  *)
(* back                                                                     *)

Texts == {"hello", ""}
MimeTypes == {"image/png", "image/jpeg"}
Payloads64 == {<<"iVBORw0KGgo=">>, <<"/9j/4AAQSkZJRg==">>}

TextPart(text) == [text |-> text]
InlinePart(mimeType, data) == [inlineData |-> [mimeType |-> mimeType, data |-> data]]
FilePart == [fileData |-> [fileUri |-> "gs://bucket/logo.png"]]

Parts ==
    {TextPart(t) : t \in Texts}
        \cup {InlinePart(m, d) : m \in MimeTypes, d \in Payloads64}
        \cup {FilePart}

\* the sequences of 0..n parts
RECURSIVE PartLists(_)
PartLists(n) ==
    IF n = 0 THEN {<< >>}
    ELSE PartLists(n - 1)
            \cup {Append(l, p) : l \in {l \in PartLists(n - 1) : Len(l) = n - 1}, p \in Parts}

WireModels == {"gemini-2.5-flash", "gemini-2.5-flash-image-preview"}

\* the payload generate_image builds of the parts
PayloadOf(parts) ==
    [contents |-> <<[parts |-> parts]>>,
     generationConfig |-> [temperature |-> 7, maxOutputTokens |-> 2048]]

\* the generationConfig of a request: temperature (in tenths) and max_tokens
\* as the client gave them, or the defaults of the request classes
GenerationConfigs ==
    {[temperature |-> 7, maxOutputTokens |-> 2048],
     [temperature |-> 3, maxOutputTokens |-> 100]}

\* call_openrouter_api converts the payload for the request
ToOpenAI(parts, model) ==
    /\ wire.stage = "none"
    /\ \E g \in GenerationConfigs :
          LET payload == [PayloadOf(parts) EXCEPT !.generationConfig = g]
          IN  wire' = [stage |-> "request", model |-> model, payload |-> payload,
                       openai_payload |-> convert_google_to_openai_format(payload, model)]
    /\ UNCHANGED <<user_credits, env, req, grants, ledger0, granted, admin>>

\* the provider answers 200 with the segments of the request
ProviderEchoes ==
    /\ wire.stage = "request"
    /\ wire' = [stage |-> "response", model |-> wire.model, payload |-> wire.payload,
                openai_payload |-> wire.openai_payload,
                openai_response |-> Echo(wire.openai_payload)]
    /\ UNCHANGED <<user_credits, env, req, grants, ledger0, granted, admin>>

\* the answers of the provider besides an echo: a str content, a list
\* content with an item of another kind or an image that is no data URL or a
\* data URL with no ",", no choice, with and without finish_reason and usage
Responses ==
    {[choices |-> <<[message |-> [role |-> "assistant", content |-> [str |-> t]],
                     finish_reason |-> f]>>,
      usage |-> [total_tokens |-> 12]] : t \in Texts, f \in {"stop", "length"}}
    \cup {[choices |-> <<[message |-> [role |-> "assistant", content |-> [str |-> t]]]>>] :
            t \in Texts}
    \cup {[choices |-> <<[message |-> [role |-> "assistant", content |-> [list |-> l]],
                          finish_reason |-> "stop"]>>] :
            l \in {<<[type |-> "text", text |-> "hello"],
                      [type |-> "input_audio", input_audio |-> "UklGRg=="]>>,
                    <<[type |-> "image_url",
                       image_url |-> [url |-> <<"https://cdn.example/img.png">>]]>>,
                    <<[type |-> "image_url",
                       image_url |-> [url |-> <<"data:", "image/png">>]]>>,
                    <<[type |-> "text", text |-> "hello"],
                      [type |-> "image_url",
                       image_url |-> [url |-> DataUrl("image/png", <<"iVBORw0KGgo=">>)]]>>}}
    \cup {[choices |-> << >>]}

\* the provider answers 200 with a response of its own
ProviderAnswers(openai_response) ==
    /\ wire.stage = "request"
    /\ wire' = [stage |-> "response", model |-> wire.model, payload |-> wire.payload,
                openai_payload |-> wire.openai_payload,
                openai_response |-> openai_response]
    /\ UNCHANGED <<user_credits, env, req, grants, ledger0, granted, admin>>

\* call_openrouter_api converts the response
ToGoogle ==
    /\ wire.stage = "response"
    /\ wire' = [stage |-> "result", model |-> wire.model, payload |-> wire.payload,
                openai_payload |-> wire.openai_payload,
                openai_response |-> wire.openai_response,
                google_result |-> convert_openai_to_google_format(wire.openai_response)]
    /\ UNCHANGED <<user_credits, env, req, grants, ledger0, granted, admin>>

InitWire ==
    /\ user_credits = << >>
    /\ env = {"OPENROUTER_API_KEY"}
    /\ req = [r \in Req |-> Idle]
    /\ grants = 0
    /\ ledger0 = user_credits
    /\ granted = [u \in Users |-> 0]
    /\ admin = NoAdmin
    /\ wire = NoWire

NextWire ==
    \/ \E parts \in PartLists(MaxParts), m \in WireModels : ToOpenAI(parts, m)
    \/ ProviderEchoes
    \/ \E a \in Responses : ProviderAnswers(a)
    \/ ToGoogle

SpecWire == InitWire /\ [][NextWire]_vars

----------------------------------------------------------------------------
(* Properties of the ledger and the handlers, checked under Spec *)

Started(rq) == rq.pc # "idle"
Succeeded(rq) == rq.pc = "done" /\ rq.outcome = "returned"
Failed(rq) == rq.pc = "done" /\ rq.outcome = "raised"
Generation(rq) == rq.kind \in {"text", "image"}

\* the slot that takes a step finishes its request in this step
Finishes(r) == req[r].pc # "done" /\ req'[r].pc = "done"

\* the credits the successful requests of user_id account for
UnitsOf(rq) == IF Generation(rq) THEN 1 ELSE 2

RECURSIVE UnitsServed(_, _)
UnitsServed(user_id, n) ==
    IF n = 0 THEN 0
    ELSE UnitsServed(user_id, n - 1)
         + (IF Succeeded(req[n]) /\ req[n].user = user_id THEN UnitsOf(req[n]) ELSE 0)

\* C1: in every reachable state every account's credits_remaining is >= 0
C1_CreditsNeverNegative ==
    \A u \in DOMAIN user_credits : user_credits[u].credits >= 0

\* C2: a successful /generate-text or /generate-image request debits exactly 1
\* credit, whatever the number of attempts and whichever provider served it:
\* the balance is the initial balance, plus what was granted, minus 1 for each
\* successful generation (and 2 for each successful analysis)
C2_OneDebitPerSuccess ==
    \A u \in Users :
        Credits(user_credits, u)
            = Credits(ledger0, u) + granted[u] - UnitsServed(u, NReq)

\* C2 happens: a generation served by the fallback after failed attempts
C2_Witness ==
    \E r \in Req :
        /\ Succeeded(req[r]) /\ Generation(req[r])
        /\ req[r].provider_used = "openrouter"
        /\ Len(req[r].calls) = 3
        /\ \E q \in Req : q # r /\ Succeeded(req[q]) /\ Generation(req[q])
                          /\ req[q].user = req[r].user

\* C3: a request that ends in a failure leaves the account's credits and
\* cumulative cost as they were before the step that ended it
C3_FailureDebitsNothing ==
    [][\A r \in Req :
          (Finishes(r) /\ Failed(req'[r]) /\ req'[r].kind # "execute")
              => /\ Credits(user_credits', req'[r].user) = Credits(user_credits, req'[r].user)
                 /\ TotalCost(user_credits', req'[r].user)
                        = TotalCost(user_credits, req'[r].user)
                 /\ req'[r].debits = 0]_vars

\* C3 happens: a request failed after every attempt failed, another was rejected
C3_Witness ==
    \E r, q \in Req :
        /\ Failed(req[r]) /\ req[r].status = 503 /\ Len(req[r].calls) = 3
        /\ Failed(req[q]) /\ req[q].status = 429

\* C4: two requests of one account that both saw the balance 1 at their Check,
\* with no grant to the account, and that both obtained a response, have both
\* debited: the account is overdrawn
C4_BothDebit ==
    \A r, q \in Req :
        (/\ r # q
         /\ Succeeded(req[r]) /\ Succeeded(req[q])
         /\ req[r].user = req[q].user
         /\ req[r].seen = 1 /\ req[q].seen = 1
         /\ granted[req[r].user] = 0)
            => Credits(user_credits, req[r].user) < 0

\* C4 happens: both passed Check before either debited, and both debited
C4_Witness ==
    \E r, q \in Req :
        /\ r # q
        /\ Succeeded(req[r]) /\ Succeeded(req[q])
        /\ Generation(req[r]) /\ Generation(req[q])
        /\ req[r].user = req[q].user
        /\ req[r].seen = 1 /\ req[q].seen = 1
        /\ Credits(ledger0, req[r].user) = 1
        /\ granted[req[r].user] = 0
        /\ req[r].debits + req[q].debits = 2
        /\ Credits(user_credits, req[r].user) = -1

\* C5: a generation request for an allowed model that arrives when the
\* account holds 0 credits is answered 429 and sends nothing upstream
C5_ExhaustedIs429 ==
    [][\A r \in Req :
          (/\ ~Started(req[r]) /\ Started(req'[r]) /\ Generation(req'[r])
           /\ req'[r].model \in DOMAIN ALLOWED_MODELS
           /\ Credits(user_credits, req'[r].user) = 0)
              => /\ Failed(req'[r]) /\ req'[r].status = 429
                 /\ req'[r].calls = << >>]_vars

\* C5 happens
C5_Witness ==
    \E r \in Req :
        /\ Generation(req[r]) /\ req[r].model \in DOMAIN ALLOWED_MODELS
        /\ req[r].checked /\ req[r].seen = 0
        /\ req[r].status = 429

\* C6: a generation request for a model off the allow-list is answered 400
\* with no credential lookup and no outbound call
C6_UnknownModelIs400 ==
    \A r \in Req :
        (Started(req[r]) /\ Generation(req[r]) /\ req[r].model \notin DOMAIN ALLOWED_MODELS)
            => /\ Failed(req[r]) /\ req[r].status = 400
               /\ req[r].lookups = 0
               /\ req[r].calls = << >>

\* C6 happens
C6_Witness ==
    \E r \in Req :
        /\ Generation(req[r]) /\ req[r].model = "gemini-2.5-pro"
        /\ req[r].status = 400

----------------------------------------------------------------------------
(* Properties of the orchestrator, checked under SpecChain *)

\* calls 1..n of rq are the Google calls with the keys 1..n of its list
KeysInOrder(rq, n) ==
    /\ Len(rq.calls) >= n
    /\ \A k \in 1..n : rq.calls[k] = Call("google", rq.api_keys[k], rq.model)

RetryableClass ==
    {"429", "500", "503", "timeout", "connection", "quota", "limit", "rate"}

C9_FourthAttemptIsSecondary ==
    \A r \in Req :
        (/\ Len(req[r].api_keys) = 3 /\ Len(req[r].errors) = 3
         /\ \A k \in 1..3 : req[r].errors[k] \in RetryableClass
         /\ req[r].model \in DOMAIN OPENROUTER_MODEL_MAPPING
         /\ "OPENROUTER_API_KEY" \in env)
            => /\ req[r].pc \in {"openrouter", "done"}
               /\ Len(req[r].calls) = 4
               /\ KeysInOrder(req[r], 3)
               /\ req[r].calls[4] = Call("openrouter", "OPENROUTER_API_KEY",
                                         OPENROUTER_MODEL_MAPPING[req[r].model])
               /\ Succeeded(req[r]) => req[r].provider_used = "openrouter"

\* C9 happens: success by OpenRouter after 3 retryable failures
C9_Witness ==
    \E r \in Req :
        /\ Succeeded(req[r]) /\ req[r].provider_used = "openrouter"
        /\ req[r].errors = <<"429", "timeout", "quota">>
        /\ Len(req[r].calls) = 4

FellBack(rq) ==
    /\ rq.api_keys # << >>
    /\ Len(rq.errors) = Len(rq.api_keys)
    /\ rq.calls # << >>
    /\ rq.calls[Len(rq.calls)].to = "openrouter"

----------------------------------------------------------------------------
(* Properties of one request through the gateway, checked under SpecGateway *)

\* the number of outbound calls of rq to the provider `to`
CallsTo(rq, to) == Cardinality({k \in 1..Len(rq.calls) : rq.calls[k].to = to})

\* C12: a generation request for an allowed model with an OpenRouter
\* equivalent (a Claude model through /generate-text included) that fails
\* because its primary attempts failed has made exactly one OpenRouter call
\* (OpenRouter's secret being configured)
C12_FallbackBeforeFailure ==
    \A r \in Req :
        (/\ Failed(req[r]) /\ Generation(req[r]) /\ req[r].status = 503
         /\ req[r].model \in DOMAIN ALLOWED_MODELS
         /\ req[r].model \in DOMAIN OPENROUTER_MODEL_MAPPING
         /\ "OPENROUTER_API_KEY" \in env)
            => CallsTo(req[r], "openrouter") = 1

\* no variable of the chain for (model, revo_version) is set: none of the
\* version-specific names, not the legacy name, none of the general names
ChainEmpty(e, model, revo_version) ==
    /\ \A k \in 1..Len(key_env_names(model, revo_version)) :
            key_env_names(model, revo_version)[k] \notin e
    /\ revo_version # NoVersion => legacy_key_name(revo_version) \notin e
    /\ "GEMINI_API_KEY" \notin e
    /\ "GOOGLE_API_KEY" \notin e

\* C13: a generation request whose credential resolution yields nothing is
\* answered 500 with no outbound call (none to Google, none to OpenRouter)
\* and no debit; a generation request is answered 500 only when the whole
\* chain, version-specific, legacy and general, is empty
C13_NoCredentialsIs500 ==
    \A r \in Req :
        (Started(req[r]) /\ Generation(req[r]))
            => /\ (req[r].lookups >= 1 /\ ChainEmpty(env, req[r].model, req[r].revo))
                    => /\ Failed(req[r]) /\ req[r].status = 500
                       /\ req[r].calls = << >>
                       /\ req[r].debits = 0
                       /\ Credits(user_credits, req[r].user) = req[r].seen
                       /\ TotalCost(user_credits, req[r].user)
                            = TotalCost(ledger0, req[r].user)
               /\ (Failed(req[r]) /\ req[r].status = 500)
                    => ChainEmpty(env, req[r].model, req[r].revo)

\* C13 happens: no Google key for the hinted version, OpenRouter's secret set
C13_Witness ==
    \E r \in Req :
        /\ Failed(req[r]) /\ req[r].status = 500 /\ req[r].revo = "3.0"
        /\ req[r].model = "gemini-2.5-flash"
        /\ "OPENROUTER_API_KEY" \in env
        /\ req[r].calls = << >>

\* rq is a /generate-text request for a Claude model: served by call_claude_api
ClaudeText(rq) == rq.kind = "text" /\ StartsWithClaude(rq.model)

----------------------------------------------------------------------------
(* Properties of the ledger operations, checked under SpecLedger *)

\* the step is a direct call of check_user_credits
CheckStep ==
    /\ req'[1].kind = "check"
    /\ req'[1].turn # req[1].turn

\* the step is a direct call of deduct_user_credit
DebitStep == req'[1].debits = req[1].debits + 1

\* the step is a purchase or add-credits request
GrantStep == grants' = grants + 1

\* C15: Check(user, tier) returns iff the account holds more than 0 credits
\* and raises 429 otherwise; either way the stored tier is the tier passed,
\* and credits and cumulative cost are what they were
C15_CheckIffPositive ==
    [][CheckStep =>
          LET u == req'[1].user
          IN  /\ Succeeded(req'[1]) <=> Credits(user_credits, u) > 0
              /\ ~Succeeded(req'[1]) => Failed(req'[1]) /\ req'[1].status = 429
              /\ u \in DOMAIN user_credits'
              /\ user_credits'[u].tier = req'[1].tier
              /\ Credits(user_credits', u) = Credits(user_credits, u)
              /\ TotalCost(user_credits', u) = TotalCost(user_credits, u)]_vars

\* C15 happens: a Check on an account debited down to 0 raised, and stored
\* the tier it was given
C15_Witness ==
    /\ req[1].kind = "check" /\ Failed(req[1]) /\ req[1].status = 429
    /\ req[1].tier = "pro" /\ req[1].debits = 2
    /\ "u1" \in DOMAIN user_credits
    /\ user_credits["u1"].credits = 0 /\ user_credits["u1"].tier = "pro"

\* C16: an add-credits request with a positive amount adds exactly the amount
\* and is answered 200; with an amount <= 0 it is answered 400 and the ledger
\* is the same: no account inserted, no credits, no tier changed
C16_GrantPositiveOnly ==
    [][(GrantStep /\ admin'.endpoint = "add-credits") =>
          LET u == admin'.user_id
              n == admin'.credits
          IN  IF n > 0
              THEN /\ admin'.status = 200
                   /\ Credits(user_credits', u) = Credits(user_credits, u) + n
                   /\ admin'.credits_added = n
                   /\ admin'.total_credits = Credits(user_credits', u)
              ELSE /\ admin'.status = 400
                   /\ user_credits' = user_credits]_vars

\* C16 happens: a grant of -1 to an unknown user is refused, no account made
C16_Witness ==
    /\ admin.endpoint = "add-credits" /\ admin.credits = -1 /\ admin.status = 400
    /\ admin.tier = "pro"
    /\ user_credits = << >>

\* the step inserts the account of user_id
FirstReference(user_id) ==
    user_id \notin DOMAIN user_credits /\ user_id \in DOMAIN user_credits'

\* what the operation of the step adds to the balance of the account
Delta ==
    IF DebitStep THEN -1
    ELSE IF GrantStep THEN admin'.credits_added
    ELSE 0

\* C17 as stated: an account inserted by its first reference starts from the
\* default of the tier it is referenced with (free 100, basic 40, premium
\* 100, pro 250, enterprise 1000)
C17_TierDefaultStart ==
    [][\A u \in Users :
          FirstReference(u)
              => user_credits'[u].credits
                    = get_tier_credits(user_credits'[u].tier) + Delta]_vars

\* C17 amended: an account inserted by its first reference starts from 100
\* credits, whatever the tier it is referenced with, and stores that tier
\* (a read stores "free")
C17_FlatDefaultStart ==
    [][\A u \in Users :
          FirstReference(u)
              => /\ user_credits'[u].credits = DefaultCredits + Delta
                 /\ user_credits'[u].total_cost \in {NoCost} \cup
                        {GENERATION_COSTS[g] : g \in DOMAIN GENERATION_COSTS}
                 /\ CheckStep \/ DebitStep => user_credits'[u].tier = req'[1].tier
                 /\ GrantStep => user_credits'[u].tier = admin'.tier
                 /\ ~(CheckStep \/ DebitStep \/ GrantStep)
                        => user_credits'[u].tier = "free"]_vars

\* C17 happens: the first reference is a Check with tier basic, the account
\* holds 100 credits
C17_Witness ==
    /\ ledger0 = << >> /\ grants = 0
    /\ req[1].kind = "check" /\ req[1].tier = "basic" /\ req[1].debits = 0
    /\ "u1" \in DOMAIN user_credits
    /\ user_credits["u1"].credits = 100 /\ user_credits["u1"].tier = "basic"

\* calls 1..n of rq are the calls to models 1..n of the analysis chain
ModelsInOrder(rq, n) ==
    /\ Len(rq.calls) = n
    /\ \A k \in 1..n :
          rq.calls[k] = Call("openrouter", "OPENROUTER_API_KEY", WEBSITE_ANALYSIS_MODELS[k])

\* C18: a successful /analyze-website request has debited exactly 2 credits,
\* whichever model of the chain answered; one that failed, or that has a
\* model still to answer, has debited nothing
C18_AnalysisDebitsTwo ==
    \A r \in Req :
        (Started(req[r]) /\ req[r].kind = "analyze")
            => IF Succeeded(req[r])
               THEN /\ req[r].debits = 2
                    /\ Credits(user_credits, req[r].user) = req[r].seen - 2
                    /\ req[r].user_credits = req[r].seen - 2
                    /\ req[r].attempt = Len(req[r].calls)
               ELSE /\ req[r].debits = 0
                    /\ Credits(user_credits, req[r].user) = req[r].seen
                    /\ TotalCost(user_credits, req[r].user) = TotalCost(ledger0, req[r].user)

\* C18 happens: the third model answered, 2 credits are gone
C18_Witness ==
    \E r \in Req :
        /\ req[r].kind = "analyze" /\ Succeeded(req[r])
        /\ req[r].attempt = 3 /\ Len(req[r].calls) = 3
        /\ req[r].seen = 2
        /\ Credits(user_credits, req[r].user) = 0

\* C19: model n of the chain is called after models 1..n-1, in list order;
\* a reply of model n that passes validation ends the request with that
\* model's result and attempt = n, and no further call; a reply that is not
\* JSON, or lacks a required field (or any other failure), is followed by
\* the call of model n+1 when there is one
C19_FirstValidModelWins ==
    [][\A r \in Req :
          (req[r].pc = "analysis" /\ req'[r] # req[r])
              => LET n == req[r].i
                 IN  /\ ModelsInOrder(req[r], n)
                     /\ IF req'[r].reply = "valid"
                        THEN /\ Succeeded(req'[r])
                             /\ req'[r].attempt = n
                             /\ req'[r].model_used = WEBSITE_ANALYSIS_MODELS[n]
                             /\ req'[r].provider_used = "openrouter"
                             /\ req'[r].calls = req[r].calls
                        ELSE IF n < Len(WEBSITE_ANALYSIS_MODELS)
                        THEN /\ req'[r].pc = "analysis"
                             /\ req'[r].i = n + 1
                             /\ ModelsInOrder(req'[r], n + 1)
                        ELSE /\ Failed(req'[r])
                             /\ req'[r].calls = req[r].calls]_vars

\* C19 happens: the second model is called after the first one's reply
\* lacked a required field
C19_Witness ==
    \E r \in Req :
        /\ req[r].pc = "analysis" /\ req[r].i = 2
        /\ req[r].reply = "incomplete"
        /\ ModelsInOrder(req[r], 2)

----------------------------------------------------------------------------
(* Properties of the translators, checked under SpecWire *)

\* the parts of the first candidate of a converted response
ResultParts(google_result) == google_result.candidates[1].content.parts

\* C20: a payload of one text part and one inline PNG part, converted for
\* OpenRouter, echoed and converted back, has the same text, the same mime
\* type image/png and the same base64 data
C20_RoundTrip ==
    \A t \in Texts, d \in Payloads64 :
        (/\ wire.stage = "result"
         /\ wire.payload.contents[1].parts = <<TextPart(t), InlinePart("image/png", d)>>
         /\ wire.openai_response = Echo(wire.openai_payload))
            => /\ Len(ResultParts(wire.google_result)) = 2
               /\ ResultParts(wire.google_result)[1] = TextPart(t)
               /\ ResultParts(wire.google_result)[2].inlineData.data = d
               /\ ResultParts(wire.google_result)[2].inlineData.mimeType = "image/png"

\* the list content of the response under conversion, << >> for a str content
ResponseItems(openai_response) ==
    LET choices == Get(openai_response, "choices", << >>)
        content == IF choices = << >> THEN [str |-> ""]
                   ELSE Get(Get(choices[1], "message", << >>), "content", [str |-> ""])
    IN  IF "list" \in DOMAIN content THEN content.list ELSE << >>

\* C21: a translation that gave a payload kept every segment: the request
\* has a message for each part of the payload, and the converted response a
\* part for each item of a list content (a translation that meets a segment
\* it does not support raises instead)
C21_NoSegmentDropped ==
    /\ (wire.stage # "none" /\ "raised" \notin DOMAIN wire.openai_payload)
            => Len(wire.openai_payload.messages) = Len(wire.payload.contents[1].parts)
    /\ (/\ wire.stage = "result"
        /\ "raised" \notin DOMAIN wire.google_result
        /\ ResponseItems(wire.openai_response) # << >>)
            => Len(ResultParts(wire.google_result))
                    = Len(ResponseItems(wire.openai_response))

----------------------------------------------------------------------------
(* Scheduling and termination of the two chains, under SpecGateway and     *)
(* SpecGatewayLive                                                          *)

\* the step sends one more outbound call of request 1
SendsCall == Len(req'[1].calls) > Len(req[1].calls)

\* the step ends the attempt in flight with a failure: an exception of the
\* Google call, or a reply of an analysis model that the chain does not accept
AttemptFails ==
    \/ /\ req[1].pc = "google"
       /\ Len(req'[1].errors) = Len(req[1].errors) + 1
       /\ Len(req[1].errors) = Len(req[1].calls) - 1
    \/ /\ req[1].pc = "analysis"
       /\ req'[1].reply \in (AnalysisReplies \cup AnalysisErrors) \ {"valid"}
       /\ Len(req[1].calls) = req[1].i

\* C22: within one request the outbound calls are strictly sequential: a step
\* sends at most one call, the calls already sent stay as they are, and a
\* call after the first is sent only in the step in which the attempt before
\* it, the only one in flight, ends with a failure
C22_Sequential ==
    [][ /\ Len(req'[1].calls) <= Len(req[1].calls) + 1
        /\ SendsCall => SubSeq(req'[1].calls, 1, Len(req[1].calls)) = req[1].calls
        /\ (SendsCall /\ req[1].calls # <<>>) => AttemptFails ]_vars

\* C22 happens: the second key is in flight after the first has failed
C22_Witness ==
    /\ req[1].pc = "google"
    /\ Len(req[1].calls) = 2
    /\ Len(req[1].errors) = 1

\* no outbound call of rq has the same destination, key and model as another
NoCallTwice(rq) ==
    \A j, k \in 1..Len(rq.calls) : j # k => rq.calls[j] # rq.calls[k]

\* C23: every request terminates when each outbound call comes back: a
\* generation request makes at most len(api_keys) + 1 outbound calls, an
\* analysis request at most 3, none of them twice, and a request that has
\* started is answered
C23_Terminates ==
    /\ [](Generation(req[1]) => Len(req[1].calls) <= Len(req[1].api_keys) + 1)
    /\ [](req[1].kind = "analyze" => Len(req[1].calls) <= 3)
    /\ [](NoCallTwice(req[1]))
    /\ (Started(req[1]) ~> req[1].pc = "done")

\* C23 happens: a generation request ended after len(api_keys) + 1 calls, the
\* list having three keys
C23_Witness ==
    /\ Generation(req[1])
    /\ req[1].pc = "done"
    /\ Len(req[1].api_keys) = 3
    /\ Len(req[1].calls) = 4

----------------------------------------------------------------------------
(* The credential list, under SpecChain and SpecPool *)

RECURSIVE IsSubsequence(_, _)
\* s is t with some of its elements left out
IsSubsequence(s, t) ==
    IF s = <<>> THEN TRUE
    ELSE IF t = <<>> THEN FALSE
    ELSE IF Head(s) = Head(t) THEN IsSubsequence(Tail(s), Tail(t))
    ELSE IsSubsequence(s, Tail(t))

\* the handles of a model and version hint by rank: primary, secondary and
\* tertiary, the legacy handle of the version, the general handles
ResolutionOrder(model, revo_version) ==
    key_env_names(model, revo_version)
        \o (IF revo_version # NoVersion THEN <<legacy_key_name(revo_version)>> ELSE <<>>)
        \o <<"GEMINI_API_KEY", "GOOGLE_API_KEY">>

Shorter(m, n) == IF m <= n THEN m ELSE n

\* C25: the order of a credential group is stable over the life of the
\* process: two requests for the same model and version hint resolve the
\* same list and send their calls in the same order, whatever has succeeded
\* or failed before
C25_StableOrder ==
    \A r, q \in Req :
        (/\ req[r].lookups > 0 /\ req[q].lookups > 0
         /\ req[r].model = req[q].model
         /\ req[r].revo = req[q].revo)
            => /\ req[r].api_keys = req[q].api_keys
               /\ \A k \in 1..Shorter(Len(req[r].calls), Len(req[q].calls)) :
                      req[r].calls[k] = req[q].calls[k]

\* C25 happens: the first request saw its first key fail and was served by
\* the second; the next request for the same model has sent its second call
C25_Witness ==
    /\ Succeeded(req[1])
    /\ req[1].provider_used = google_key_tag(2)
    /\ req[2].lookups > 0
    /\ req[2].model = req[1].model
    /\ req[2].revo = req[1].revo
    /\ Len(req[2].calls) >= 2

----------------------------------------------------------------------------
(* Tier access, under SpecGateway *)

UnknownTier(tier) == tier \notin DOMAIN TIER_MODELS

\* C26: the tier-access check never fails because the tier is unknown: an
\* unknown tier is evaluated as the free tier, so a generation request with
\* an unknown tier and a model allowed for free is not answered 403 and goes
\* on to the credit check
C26_UnknownTierIsFree ==
    /\ \A t \in GatewayTiers, m \in GatewayModels :
            UnknownTier(t) =>
                validate_tier_model_access(t, m) = validate_tier_model_access("free", m)
    /\ (/\ Started(req[1]) /\ Generation(req[1])
        /\ UnknownTier(req[1].tier)
        /\ req[1].model \in TIER_MODELS["free"])
            => req[1].status # 403 /\ req[1].checked

\* C26 happens: a request with the unknown tier "vip" was served
C26_Witness ==
    /\ Succeeded(req[1]) /\ Generation(req[1])
    /\ UnknownTier(req[1].tier)
    /\ req[1].status = 200

\* C27: every model of the allow-list is on the access list of every tier, so
\* a request whose model passes the allow-list check is never answered 403,
\* whatever its tier
C27_NoTierForbidden ==
    /\ \A t \in DOMAIN TIER_MODELS : DOMAIN ALLOWED_MODELS \subseteq TIER_MODELS[t]
    /\ \A t \in GatewayTiers, m \in DOMAIN ALLOWED_MODELS : validate_tier_model_access(t, m)
    /\ (Started(req[1]) /\ Generation(req[1]) /\ validate_model(req[1].model).ok)
            => req[1].status # 403 /\ req[1].checked

\* C27 happens: a free-tier request for claude-sonnet-4.5 passed the
\* allow-list check and the tier check
C27_Witness ==
    /\ Generation(req[1])
    /\ req[1].tier = "free"
    /\ req[1].model = "claude-sonnet-4.5"
    /\ req[1].checked
    /\ req[1].status # 403

----------------------------------------------------------------------------
(* The version hint, under SpecChain *)

\* the context c, had the request carried the version hint v
WithHint(c, v) == [c EXCEPT !.rq.revo = v]

\* C28: a version hint only changes which credential group is resolved: the
\* calls walk the resolved list in order, and what the orchestrator does
\* when the call in flight fails or succeeds (next key, the one OpenRouter
\* call, the provider tag, the error raised) is what it does without a hint
\* or with any other
C28_HintKeepsPolicy ==
    LET c == [rq |-> req[1], uc |-> user_credits]
    IN  /\ (req[1].lookups > 0 /\ IsHttpUrl(req[1].endpoint))
                => KeysInOrder(req[1], CallsTo(req[1], "google"))
        /\ \A v \in ChainVersions :
            /\ req[1].pc = "google" =>
                /\ \A x \in UpstreamErrors \cup {ProtocolError} :
                        KeyFailed(WithHint(c, v), env, x) = WithHint(KeyFailed(c, env, x), v)
                /\ Returned(WithHint(c, v), google_key_tag(req[1].i))
                        = WithHint(Returned(c, google_key_tag(req[1].i)), v)
            /\ req[1].pc = "openrouter" =>
                /\ \A x \in OpenRouterErrors :
                        OpenRouterFailed(WithHint(c, v), x) = WithHint(OpenRouterFailed(c, x), v)
                /\ Returned(WithHint(c, v), "openrouter")
                        = WithHint(Returned(c, "openrouter"), v)

\* C28 happens: a request with the hint "1.0" for a model whose default group
\* is that of 1.5 is at the second key of the 1.0 group
C28_Witness ==
    /\ req[1].revo = "1.0"
    /\ req[1].model = "gemini-2.5-flash"
    /\ req[1].pc = "google"
    /\ req[1].i = 2
    /\ req[1].api_keys[2] = "GEMINI_API_KEY_REVO_1_0_SECONDARY"

----------------------------------------------------------------------------
(* The response of a generation request, under SpecGateway *)

\* C29: a successful /generate-text or /generate-image request on a Gemini
\* model answers with provider_used 'google' or 'openrouter'
C29_ProviderGoogleOrOpenRouter ==
    (/\ Succeeded(req[1]) /\ Generation(req[1])
     /\ ~StartsWithClaude(req[1].model))
        => req[1].provider_used \in {"google", "openrouter"}

----------------------------------------------------------------------------
(* The order of the steps of a generation request, under SpecGateway *)

\* the account of the request carries the tier of the request
TierStored(rq) ==
    rq.user \in DOMAIN user_credits /\ user_credits[rq.user].tier = rq.tier

\* C30: the ledger Check, with its tier update, is the first step of every
\* generation request: it comes before the model is resolved against the
\* allow-list, so every request that was answered has made it
C30_CheckBeforeResolve ==
    (req[1].pc = "done" /\ Generation(req[1]))
        => req[1].checked /\ TierStored(req[1])

\* C30, as the handlers run: the model is resolved against the allow-list
\* and the tier table first; the ledger Check, with its tier update, is made
\* only for a model that passed; an outbound call is sent only after the
\* Check has passed; the Debit is made only in the step in which an outbound
\* call returns, and no call follows it
C30_ResolveCheckCallDebit ==
    /\ [](Generation(req[1]) =>
            /\ req[1].checked =>
                    /\ validate_model(req[1].model).ok
                    /\ validate_tier_model_access(req[1].tier, req[1].model)
                    /\ TierStored(req[1])
            /\ req[1].lookups > 0 => req[1].checked /\ req[1].seen > 0
            /\ req[1].calls # <<>> => req[1].lookups > 0
            /\ req[1].debits > 0 => req[1].calls # <<>> /\ Succeeded(req[1]))
    /\ [][(Generation(req'[1]) /\ DebitStep)
            => /\ InFlight(req[1])
               /\ req[1].calls # <<>>
               /\ req'[1].calls = req[1].calls
               /\ req'[1].pc = "done"]_vars
    /\ [][(Generation(req[1]) /\ req[1].calls # <<>>)
            => /\ req'[1].checked = req[1].checked
               /\ req'[1].seen = req[1].seen
               /\ req'[1].endpoint = req[1].endpoint]_vars

\* C30 happens: a request was resolved, checked with 1 credit, served by its
\* second outbound call and debited once
C30_Witness ==
    /\ Succeeded(req[1]) /\ Generation(req[1])
    /\ validate_model(req[1].model).ok
    /\ req[1].checked /\ req[1].seen = 1
    /\ TierStored(req[1])
    /\ Len(req[1].calls) = 2
    /\ req[1].debits = 1

----------------------------------------------------------------------------
(* Where the secrets go, under SpecGateway *)

\* the secrets of the Google credential groups
GoogleSecrets ==
    {"GEMINI_API_KEY", "GOOGLE_API_KEY",
     "GEMINI_API_KEY_REVO_1_0", "GEMINI_API_KEY_REVO_1_5",
     "GEMINI_API_KEY_REVO_2_0", "GEMINI_API_KEY_REVO_3_0",
     "GEMINI_API_KEY_REVO_1_0_PRIMARY", "GEMINI_API_KEY_REVO_1_0_SECONDARY",
     "GEMINI_API_KEY_REVO_1_0_TERTIARY", "GEMINI_API_KEY_REVO_1_5_PRIMARY",
     "GEMINI_API_KEY_REVO_1_5_SECONDARY", "GEMINI_API_KEY_REVO_1_5_TERTIARY",
     "GEMINI_API_KEY_REVO_2_0_PRIMARY", "GEMINI_API_KEY_REVO_2_0_SECONDARY",
     "GEMINI_API_KEY_REVO_2_0_TERTIARY"}

\* C31: a secret is sent only to the provider of its credential group: no
\* Google/Gemini key goes to the Anthropic endpoint and no Anthropic key
\* goes to a Google endpoint
C31_SecretStaysWithProvider ==
    \A k \in 1..Len(req[1].calls) :
        /\ req[1].calls[k].to = "anthropic" => req[1].calls[k].key \notin GoogleSecrets
        /\ req[1].calls[k].to = "google" => req[1].calls[k].key # "ANTHROPIC_API_KEY"

----------------------------------------------------------------------------
(* The end of the analysis chain, under SpecGateway *)

\* C32: the statement after the loop of the analysis chain (raise "Website
\* analysis failed with all models") is never reached: no request is
\* answered with its message
C32_AfterLoopUnreached ==
    req[1].detail # "Website analysis failed with all models"

\* C33: of the analysis chain only the exhaustion is reported: while a model
\* before the last fails nothing is answered, and the chain that is
\* exhausted answers one HTTP 500 that carries the error of the last model;
\* the 429 of the credit check and the 400 of the content check reach the
\* caller with their own status
C33_OnlyExhaustionSurfaced ==
    req[1].kind = "analyze" =>
        /\ req[1].pc = "analysis" => req[1].status = 0
        /\ Failed(req[1]) =>
            /\ req[1].status \in {429, 400, 500}
            /\ req[1].status = 429 <=> (req[1].checked /\ req[1].seen <= 0)
            /\ req[1].status \in {429, 400} => req[1].calls = << >>
            /\ req[1].status = 500 =>
                    /\ Len(req[1].calls) = Len(WEBSITE_ANALYSIS_MODELS)
                    /\ req[1].detail = AllModelsFailed(req[1].reply)

----------------------------------------------------------------------------
(* The fallback without its secret, under SpecChain *)

\* C34: when OPENROUTER_API_KEY is not set, the fallback step sends no
\* outbound call and counts as failed: once every key of the list has
\* failed, the request fails with the error of the primary provider
C34_NoSecretNoCall ==
    (Started(req[1]) /\ "OPENROUTER_API_KEY" \notin env) =>
        /\ CallsTo(req[1], "openrouter") = 0
        /\ req[1].pc # "openrouter"
        /\ (Failed(req[1]) /\ req[1].api_keys # <<>>) =>
                /\ Len(req[1].errors) = Len(req[1].api_keys)
                /\ req[1].detail = req[1].errors[Len(req[1].errors)]
                /\ req[1].detail \in UpstreamErrors \cup {ProtocolError}

\* C34 happens: a model with an OpenRouter equivalent, three keys that all
\* failed, no OpenRouter secret
C34_Witness ==
    /\ "OPENROUTER_API_KEY" \notin env
    /\ req[1].model \in DOMAIN OPENROUTER_MODEL_MAPPING
    /\ Failed(req[1])
    /\ Len(req[1].errors) = 3
    /\ Len(req[1].calls) = 3

----------------------------------------------------------------------------
(* The Check of a rejected request, under SpecGateway *)

\* C35: the Check stores the tier of the request in the account even when
\* it raises the exhausted error: a request that reaches the Check with an
\* account of 0 credits is answered 429, and after it the account has the
\* tier of the request, 0 credits and the cost it had
C35_TierStoredOnReject ==
    [][(/\ ~Started(req[1]) /\ Started(req'[1])
        /\ req'[1].kind = "analyze" \/ validate_model(req'[1].model).ok
        /\ req'[1].user \in DOMAIN user_credits
        /\ user_credits[req'[1].user].credits = 0)
          => /\ Failed(req'[1]) /\ req'[1].status = 429
             /\ user_credits'[req'[1].user].tier = req'[1].tier
             /\ user_credits'[req'[1].user].credits = 0
             /\ user_credits'[req'[1].user].total_cost
                    = user_credits[req'[1].user].total_cost]_vars

\* C35 happens: the account had the tier "free" and 0 credits; the rejected
\* request came with the tier "pro"
C35_Witness ==
    /\ Failed(req[1]) /\ req[1].status = 429
    /\ req[1].tier = "pro"
    /\ ledger0 # << >> /\ ledger0["u1"].tier = "free" /\ ledger0["u1"].credits = 0
    /\ user_credits["u1"].tier = "pro"
    /\ user_credits["u1"].credits = 0

----------------------------------------------------------------------------
(* The balance a response reports, under Spec: requests that overlap *)

\* C36: the user_credits of a successful response is the balance of the
\* account right after the debit of that request, whatever other requests
\* and grants of the same account have done since its Check: it is the
\* balance the step found, less the units of the request, and the balance
\* the step leaves
C36_ReportsOwnBalance ==
    [][\A r \in Req :
          (Finishes(r) /\ Succeeded(req'[r]))
              => /\ req'[r].user_credits
                        = Credits(user_credits, req'[r].user) - UnitsOf(req'[r])
                 /\ req'[r].user_credits = Credits(user_credits', req'[r].user)]_vars

\* C36 happens: two requests of one account passed the Check at 2 credits
\* before either was served; one reported 1, the other 0
C36_Witness ==
    \E r, q \in Req :
        /\ r # q /\ req[r].user = req[q].user
        /\ Succeeded(req[r]) /\ Succeeded(req[q])
        /\ Generation(req[r]) /\ Generation(req[q])
        /\ req[r].seen = 2 /\ req[q].seen = 2
        /\ req[r].user_credits = 1 /\ req[q].user_credits = 0
        /\ grants = 0

----------------------------------------------------------------------------
(* The order of the checks of /analyze-website, under SpecGateway *)

\* the step that takes in an /analyze-website request
AnalyzeStarts == ~Started(req[1]) /\ Started(req'[1]) /\ req'[1].kind = "analyze"

\* C37: /analyze-website checks the credits before the content: with 0
\* credits the answer is 429 whether the content is long enough or not;
\* with credits and a content shorter than 100 characters it is 400; in both
\* cases no outbound call is sent and nothing is debited
C37_CreditsBeforeContent ==
    [][AnalyzeStarts =>
          LET u == req'[1].user
          IN  /\ Credits(user_credits, u) = 0
                    => /\ Failed(req'[1]) /\ req'[1].status = 429
                       /\ req'[1].calls = << >> /\ req'[1].debits = 0
                       /\ Credits(user_credits', u) = 0
              /\ (Credits(user_credits, u) > 0 /\ ~req'[1].long_enough)
                    => /\ Failed(req'[1]) /\ req'[1].status = 400
                       /\ req'[1].calls = << >> /\ req'[1].debits = 0
                       /\ Credits(user_credits', u) = Credits(user_credits, u)]_vars

\* C37 happens: 0 credits and a content that is too short, answered 429
C37_Witness ==
    /\ req[1].kind = "analyze"
    /\ ~req[1].long_enough
    /\ req[1].seen = 0
    /\ req[1].status = 429
    /\ req[1].calls = << >>

----------------------------------------------------------------------------
(* The translations one by one, under SpecWire *)

\* the response has a choice whose content is a string
TextOnly(openai_response) ==
    /\ Get(openai_response, "choices", << >>) # << >>
    /\ "message" \in DOMAIN openai_response.choices[1]
    /\ "content" \in DOMAIN openai_response.choices[1].message
    /\ "str" \in DOMAIN openai_response.choices[1].message.content

\* C38: the translation of a text-only response of the provider has exactly
\* one candidate, with exactly one text part equal to the content of the
\* message and index 0, and its finish reason is 'STOP' when the provider
\* reported 'stop'
C38_TextResponse ==
    (wire.stage = "result" /\ TextOnly(wire.openai_response)) =>
        LET choice == wire.openai_response.choices[1]
            result == wire.google_result
        IN  /\ "raised" \notin DOMAIN result
            /\ Len(result.candidates) = 1
            /\ result.candidates[1].content.parts
                    = <<[text |-> choice.message.content.str]>>
            /\ result.candidates[1].index = 0
            /\ Get(choice, "finish_reason", "none") = "stop"
                    => result.candidates[1].finishReason = "STOP"

\* the message of a text part or an inline-image part
MessageOf(part) ==
    IF "text" \in DOMAIN part
    THEN [role |-> "user", content |-> [str |-> part.text]]
    ELSE [role |-> "user",
          content |-> [list |-> <<[type |-> "image_url",
                                  image_url |-> [url |-> DataUrl(part.inlineData.mimeType,
                                                                 part.inlineData.data)]]>>]]

\* C39: the translation of a canonical request maps the segments one to one
\* and in order (the i-th text or inline-image part is the i-th message),
\* passes the temperature through, carries maxOutputTokens as max_tokens,
\* names the provider's model, and sets modalities exactly for a model
\* whose name holds "image"
C39_RequestTranslation ==
    wire.stage # "none" =>
        LET parts == wire.payload.contents[1].parts
            kept == SelectSeq(parts, LAMBDA p : "text" \in DOMAIN p \/ "inlineData" \in DOMAIN p)
            out == wire.openai_payload
        IN  /\ Len(out.messages) = Len(kept)
            /\ \A i \in 1..Len(kept) : out.messages[i] = MessageOf(kept[i])
            /\ out.temperature = wire.payload.generationConfig.temperature
            /\ out.max_tokens = wire.payload.generationConfig.maxOutputTokens
            /\ out.model = OPENROUTER_MODEL_MAPPING[wire.model]
            /\ "modalities" \in DOMAIN out <=> wire.model = "gemini-2.5-flash-image-preview"
            /\ "modalities" \in DOMAIN out => out.modalities = <<"image", "text">>

\* C39 happens: an image and a text, in that order, for the image model,
\* with a temperature and a token limit that are not the defaults
C39_Witness ==
    /\ wire.stage = "request"
    /\ wire.model = "gemini-2.5-flash-image-preview"
    /\ wire.payload.contents[1].parts
            = <<InlinePart("image/png", <<"iVBORw0KGgo=">>), TextPart("hello")>>
    /\ wire.payload.generationConfig = [temperature |-> 3, maxOutputTokens |-> 100]
    /\ Len(wire.openai_payload.messages) = 2

====
